---- MODULE Spec2Model ----
(***************************************************************************)
(* PrivateIndexer server: the torrent catalog (MySQL table `torrents`),   *)
(* the torrent storage directory, the upload handler, the reconciliation  *)
(* and staleness sweeps, the Torznab search handler and the swarm counts  *)
(* derived from the Redis peer records.                                   *)
(*                                                                         *)
(* Every store statement (one awaited mysql.* or redis call) is one       *)
(* atomic step; the synchronous code between two awaits is a step of its  *)
(* own, so that statements of other coroutines may land in between.       *)
(***************************************************************************)
EXTENDS Integers, Sequences, FiniteSets, TLC

\* ------------------------------------------------------------------------
\* Bounds of the model
\* ------------------------------------------------------------------------
MaxUser == 2
MaxContent == 2
MaxUploads == 2
MaxTime == 2
MaxSweeps == 1
MaxReconRuns == 2
MaxAltPath == 1
MaxTorrentId == 1
MaxPeer == 3
MaxSwarmTime == 3
MaxLimit == 2
MaxOffset == 2
MaxGrabs == 2
MaxList == 3

Users == 1..MaxUser
Contents == 1..MaxContent
Slots == 1..MaxUploads
Times == 0..MaxTime
AltPaths == 1..MaxAltPath
SwarmTorrents == 1..MaxTorrentId
PeerIds == 1..MaxPeer

\* the user who runs client p, and who uploads content p
OwnerOf(p) == ((p - 1) % MaxUser) + 1

\* ------------------------------------------------------------------------
\* Program constants
\* ------------------------------------------------------------------------
MYSQL_MAX_RETY == 5
\* MYSQL_RETRY_BACKOFF = 0.2 seconds, in tenths of a second
MYSQL_RETRY_BACKOFF == 2
\* STALE_THRESHOLD and PEER_TIMEOUT are read from the environment; the
\* model's clock ticks in units of the threshold's order of magnitude.
STALE_THRESHOLD == 1
PEER_TIMEOUT == 1
\* the `count` of a SCAN call, scaled down to the keys of the model
SCAN_COUNT == 1

CategoryIds == {2000, 5000, 3000}

\* SQL NULL / Python None for integer columns, and for text columns
Null == 0 - 1
NullStr == <<"NULL">>

\* ------------------------------------------------------------------------
\* Text: a string is a sequence of characters of a small alphabet
\* ------------------------------------------------------------------------
Digits == {"0", "1", "2", "3", "5"}
LowerLetters == {"a", "b", "e", "s", "x"}

IsDigit(ch) == ch \in Digits

DigitVal(ch) ==
    CASE ch = "0" -> 0
      [] ch = "1" -> 1
      [] ch = "2" -> 2
      [] ch = "3" -> 3
      [] ch = "5" -> 5

\* unidecode(ch, replace_str=""): ASCII is kept, an accented letter becomes
\* its base letter, a character without transliteration is dropped
Unidecode(ch) ==
    CASE ch = "e_acute" -> <<"e">>
      [] ch = "snowman" -> <<>>
      [] OTHER -> <<ch>>

\* str.lower() of one character
Lower(ch) ==
    CASE ch = "A" -> "a"
      [] ch = "S" -> "s"
      [] ch = "E" -> "e"
      [] ch = "X" -> "x"
      [] OTHER -> ch

RECURSIVE FlatMap(_, _)
FlatMap(s, i) ==
    IF i > Len(s) THEN <<>> ELSE Unidecode(s[i]) \o FlatMap(s, i + 1)

RECURSIVE LStrip(_)
LStrip(s) == IF s # <<>> /\ Head(s) = " " THEN LStrip(Tail(s)) ELSE s

RECURSIVE RStrip(_)
RStrip(s) ==
    IF s # <<>> /\ s[Len(s)] = " " THEN RStrip(SubSeq(s, 1, Len(s) - 1)) ELSE s

Strip(s) == RStrip(LStrip(s))

\* re.sub(r"[^a-z0-9]+", "", text)
RECURSIVE KeepAlnum(_)
KeepAlnum(s) ==
    IF s = <<>> THEN <<>>
    ELSE IF Head(s) \in LowerLetters \cup Digits
         THEN <<Head(s)>> \o KeepAlnum(Tail(s))
         ELSE KeepAlnum(Tail(s))

clean_text_filter(text) ==
    LET t1 == FlatMap(text, 1)
        t2 == Strip([i \in 1..Len(t1) |-> Lower(t1[i])])
    IN KeepAlnum(t2)

\* number of consecutive digits of s from position i, at most max of them
RECURSIVE DigitRun(_, _, _)
DigitRun(s, i, max) ==
    IF max = 0 \/ i > Len(s) THEN 0
    ELSE IF ~IsDigit(s[i]) THEN 0
    ELSE 1 + DigitRun(s, i + 1, max - 1)

\* int(s[i .. i+n-1])
RECURSIVE ToInt(_, _, _)
ToInt(s, i, n) ==
    IF n = 0 THEN 0 ELSE ToInt(s, i, n - 1) * 10 + DigitVal(s[i + n - 1])

\* SEASON_EPISODE_REGEX tried at position i:
\*   S(\d{1,4})(?:E(\d{1,3}))?  |  (\d{1,4})x(\d{1,3})   (IGNORECASE)
MatchAt(s, i) ==
    LET n1 == DigitRun(s, i + 1, 4)
        j  == i + 1 + n1
        m1 == IF j <= Len(s) /\ s[j] \in {"E", "e"} THEN DigitRun(s, j + 1, 3) ELSE 0
        n2 == DigitRun(s, i, 4)
        k  == i + n2
        m2 == IF k <= Len(s) /\ s[k] \in {"X", "x"} THEN DigitRun(s, k + 1, 3) ELSE 0
    IN IF s[i] \in {"S", "s"} /\ n1 > 0
       THEN [ok |-> TRUE, season |-> ToInt(s, i + 1, n1),
             episode |-> IF m1 > 0 THEN ToInt(s, j + 1, m1) ELSE Null]
       ELSE IF n2 > 0 /\ m2 > 0
       THEN [ok |-> TRUE, season |-> ToInt(s, i, n2), episode |-> ToInt(s, k + 1, m2)]
       ELSE [ok |-> FALSE, season |-> Null, episode |-> Null]

RECURSIVE SearchFrom(_, _)
SearchFrom(s, i) ==
    IF i > Len(s) THEN [ok |-> FALSE, season |-> Null, episode |-> Null]
    ELSE IF MatchAt(s, i).ok THEN MatchAt(s, i)
    ELSE SearchFrom(s, i + 1)

extract_season_episode(name) ==
    LET m == SearchFrom(name, 1) IN <<m.season, m.episode>>

\* ------------------------------------------------------------------------
\* Torrent content, hashes, file paths
\* ------------------------------------------------------------------------
\* get_torrent_hashes: the (v1, v2) info-hashes of a torrent's content
get_torrent_hashes(c) == <<100 + c, 200 + c>>

\* get_torrent_file: TORRENTS_DIR/<hash_v2>.torrent
get_torrent_file(hash_v2) == 1000 + hash_v2

\* ------------------------------------------------------------------------
\* Upload inputs: form fields of POST /upload
\* ------------------------------------------------------------------------
NameEpisode == <<"A", " ", "S", "1", "E", "2">>
NamePack    == <<"b", "-", "s", "2">>
NamePlain   == <<"e_acute", "b">>

Metas ==
    { [name |-> NameEpisode, category |-> 5000, imdbid |-> Null, tmdbid |-> Null,
       tvdbid |-> 5, artist |-> NullStr, album |-> NullStr],
      [name |-> NamePlain, category |-> 3000, imdbid |-> Null, tmdbid |-> Null,
       tvdbid |-> Null, artist |-> <<"A", " ", "b">>, album |-> <<"X">>],
      [name |-> NamePack, category |-> 9999, imdbid |-> Null, tmdbid |-> Null,
       tvdbid |-> Null, artist |-> NullStr, album |-> NullStr] }

\* `if artist: artist = utils.clean_text_filter(artist)`
CleanOpt(s) == IF s # NullStr /\ s # <<>> THEN clean_text_filter(s) ELSE s

VARIABLES
    torrents,   \* rows of table `torrents`
    nextId,     \* AUTO_INCREMENT of torrents.id
    files,      \* files of TORRENTS_DIR: records [path, content]
    now,        \* the clock (seconds, scaled)
    up,         \* the POST /upload requests, one per slot
    db,         \* the reconciliation task (periodic_database_check_task)
    stale,      \* the staleness task (periodic_stale_check_task)
    peers,      \* Redis sorted sets peers:<torrent>: records [t, p, score]
    peerh,      \* Redis hashes peer:<torrent>:<peer>: records [t, p, user_id, left]
    redisUp,    \* whether Redis answers
    pt,         \* the peer expiry task (periodic_peer_timeout_task)
    su,         \* the stats refresh task (periodic_stats_update_task)
    userStats,  \* columns seeding, leeching of table `users`
    sl,         \* the call of utils.get_seeders_and_leechers in flight
    rq,         \* the GET /api request in flight
    accounts,   \* rows of table `users`: whether user u has one, and its grabs
    gr,         \* the GET /grab request in flight
    sy,         \* the POST /sync request in flight
    pg,         \* a client that pages through a search
    tk,         \* the loops of the four periodic tasks
    pool,       \* thread_executor._hash_executor: "none", "open" or "shutdown"
    an,         \* the GET /analytics request in flight
    sb          \* the POST /sync request that carries a list, in flight

catalogVars == <<torrents, nextId, files>>
sweepVars == <<db, stale>>
swarmVars == <<peers, peerh, redisUp, pt, su, userStats, sl>>
otherVars == <<catalogVars, up, sweepVars, rq>>
moreVars == <<accounts, gr, sy, pg, tk, pool, an, sb>>
vars == <<torrents, nextId, files, now, up, db, stale, peers, peerh,
          redisUp, pt, su, userStats, sl, rq, accounts, gr, sy, pg, tk, pool, an, sb>>

NoMeta ==
    [name |-> <<>>, category |-> 0, imdbid |-> Null, tmdbid |-> Null,
     tvdbid |-> Null, artist |-> NullStr, album |-> NullStr]

IdleUpload ==
    [pc |-> "idle", user |-> 0, content |-> 0, meta |-> NoMeta, existing |-> 0,
     attempt |-> 0, status |-> 0, wait |-> 0]

\* ------------------------------------------------------------------------
\* The store: table `torrents`
\* ------------------------------------------------------------------------
\* a table without the two unique keys
UniqueOk_NoKeys(others, h1, h2) == TRUE

\* UNIQUE KEY hash_v1, UNIQUE KEY hash_v2: whether a row with these hashes
\* may be stored beside the rows `others`
UniqueOk(others, h1, h2) ==
    \A r \in others : r.hash_v1 # h1 /\ r.hash_v2 # h2

\* the row INSERTed by upload (torrent_path is not among the columns given)
NewRow(id, u, c, m, t) ==
    [id |-> id,
     name |-> m.name,
     normalized_name |-> clean_text_filter(m.name),
     season |-> extract_season_episode(m.name)[1],
     episode |-> extract_season_episode(m.name)[2],
     imdbid |-> m.imdbid, tmdbid |-> m.tmdbid, tvdbid |-> m.tvdbid,
     artist |-> CleanOpt(m.artist), album |-> CleanOpt(m.album),
     category |-> m.category,
     hash_v1 |-> get_torrent_hashes(c)[1],
     hash_v2 |-> get_torrent_hashes(c)[2],
     grabs |-> 0,
     added_on |-> t,
     added_by_user_id |-> u,
     last_seen |-> t,
     torrent_path |-> Null]

\* the row after upload's UPDATE ... WHERE id = existing.id
UpdatedRow(r, c, m, t) ==
    [r EXCEPT !.name = m.name,
              !.normalized_name = clean_text_filter(m.name),
              !.hash_v1 = get_torrent_hashes(c)[1],
              !.hash_v2 = get_torrent_hashes(c)[2],
              !.season = extract_season_episode(m.name)[1],
              !.episode = extract_season_episode(m.name)[2],
              !.imdbid = m.imdbid, !.tmdbid = m.tmdbid, !.tvdbid = m.tvdbid,
              !.artist = CleanOpt(m.artist), !.album = CleanOpt(m.album),
              !.last_seen = t]

\* ------------------------------------------------------------------------
\* POST /upload
\* ------------------------------------------------------------------------
\* the request arrives: category validation, hashes and metadata computed
UploadStart(s, u, c, m) ==
    /\ up[s].pc = "idle"
    /\ up' = [up EXCEPT ![s] =
                IF m.category \notin CategoryIds
                THEN [IdleUpload EXCEPT !.pc = "done", !.status = 400]
                ELSE [IdleUpload EXCEPT !.pc = "check", !.user = u, !.content = c,
                                        !.meta = m]]
    /\ UNCHANGED <<catalogVars, now, sweepVars, swarmVars, rq, moreVars>>

\* rows matched by SELECT ... WHERE hash_v1=%s OR hash_v2=%s
ExistingRows(c) ==
    {r \in torrents : \/ r.hash_v1 = get_torrent_hashes(c)[1]
                      \/ r.hash_v2 = get_torrent_hashes(c)[2]}

\* an upload that takes any existing row for the uploader's own
AfterExisting_AnyUser(req, r) ==
    [req EXCEPT !.pc = "update", !.existing = r.id, !.attempt = 1]

\* where upload goes once fetch_one has answered with row r
AfterExisting(req, r) ==
    IF r.added_by_user_id = req.user
    THEN [req EXCEPT !.pc = "update", !.existing = r.id, !.attempt = 1]
    ELSE [req EXCEPT !.pc = "done", !.status = 409]

\* `existing = await mysql.fetch_one(...)` and the branch taken on it
UploadCheck(s) ==
    /\ up[s].pc = "check"
    /\ IF ExistingRows(up[s].content) = {}
       THEN up' = [up EXCEPT ![s].pc = "move"]
       ELSE \E r \in ExistingRows(up[s].content) :
                up' = [up EXCEPT ![s] = AfterExisting(up[s], r)]
    /\ UNCHANGED <<catalogVars, now, sweepVars, swarmVars, rq, moreVars>>

\* `wait_time = MYSQL_RETRY_BACKOFF * attempt`
wait_time(attempt) == MYSQL_RETRY_BACKOFF * attempt

\* a loop that grants one attempt more than the ceiling
RetryOrRaise_OneMore(req) ==
    IF req.attempt <= MYSQL_MAX_RETY
    THEN [req EXCEPT !.attempt = req.attempt + 1, !.wait = wait_time(req.attempt)]
    ELSE [req EXCEPT !.pc = "done", !.status = 500]

\* one attempt of _with_retry that failed: sleep and retry, or raise; wait is
\* the time of the last `await asyncio.sleep(wait_time)`
RetryOrRaise(req) ==
    IF req.attempt < MYSQL_MAX_RETY
    THEN [req EXCEPT !.attempt = req.attempt + 1, !.wait = wait_time(req.attempt)]
    ELSE [req EXCEPT !.pc = "done", !.status = 500]

\* the owner's re-upload: UPDATE torrents SET ... WHERE id = existing.id
UploadUpdate(s) ==
    /\ up[s].pc = "update"
    /\ LET req == up[s]
           hit == {r \in torrents : r.id = req.existing}
           h   == get_torrent_hashes(req.content)
       IN IF \A r \in hit : UniqueOk(torrents \ {r}, h[1], h[2])
          THEN /\ torrents' = (torrents \ hit) \cup
                      {UpdatedRow(r, req.content, req.meta, now) : r \in hit}
               /\ up' = [up EXCEPT ![s].pc = "done", ![s].status = 409]
          ELSE /\ torrents' = torrents
               /\ up' = [up EXCEPT ![s] = RetryOrRaise(req)]
    /\ UNCHANGED <<nextId, files, now, sweepVars, swarmVars, rq, moreVars>>

\* shutil.move(temporary file, get_torrent_file(hash_v2))
UploadMove(s) ==
    /\ up[s].pc = "move"
    /\ LET p == get_torrent_file(get_torrent_hashes(up[s].content)[2])
       IN files' = {f \in files : f.path # p}
                     \cup {[path |-> p, content |-> up[s].content]}
    /\ up' = [up EXCEPT ![s].pc = "insert", ![s].attempt = 1]
    /\ UNCHANGED <<torrents, nextId, now, sweepVars, swarmVars, rq, moreVars>>

\* the request after one attempt of the INSERT
AfterInsert(req, ok) ==
    IF ok THEN [req EXCEPT !.pc = "done", !.status = 200]
    ELSE RetryOrRaise(req)

\* one attempt of mysql.execute(INSERT INTO torrents ...) under _with_retry
UploadInsert(s) ==
    /\ up[s].pc = "insert"
    /\ LET req == up[s]
           h   == get_torrent_hashes(req.content)
           ok  == UniqueOk(torrents, h[1], h[2])
       IN /\ up' = [up EXCEPT ![s] = AfterInsert(req, ok)]
          /\ IF ok
             THEN /\ torrents' = torrents \cup
                         {NewRow(nextId, req.user, req.content, req.meta, now)}
                  /\ nextId' = nextId + 1
             ELSE UNCHANGED <<torrents, nextId>>
    /\ UNCHANGED <<files, now, sweepVars, swarmVars, rq, moreVars>>

\* ------------------------------------------------------------------------
\* POST /sync: the statement that writes
\* ------------------------------------------------------------------------
\* comparison of two strings under the columns' collation utf8mb4_general_ci
Fold(t) == LET u == FlatMap(t, 1) IN [i \in 1..Len(u) |-> Lower(u[i])]

CiEqual(a, b) == Fold(a) = Fold(b)

\* an UPDATE without `t.added_by_user_id = %s`
SyncWrites_AnyUser(r, u, infohash, name) ==
    /\ r.hash_v2 = infohash
    /\ name # NullStr /\ name # <<>>
    /\ ~CiEqual(r.name, name) \/ ~CiEqual(r.normalized_name, clean_text_filter(name))

\* whether sync's UPDATE ... JOIN writes row r for the entry (infohash, name)
\* sent by user u
SyncWrites(r, u, infohash, name) ==
    /\ r.hash_v2 = infohash
    /\ name # NullStr /\ name # <<>>
    /\ r.added_by_user_id = u
    /\ \/ ~CiEqual(r.name, name)
       \/ ~CiEqual(r.normalized_name, clean_text_filter(name))

\* UPDATE torrents t JOIN (...) c ON c.infohash = t.hash_v2 SET t.name = c.name,
\* t.normalized_name = c.normalized_name WHERE ... AND t.added_by_user_id = %s
SyncUpdate(u, infohash, name) ==
    /\ \E r \in torrents : SyncWrites(r, u, infohash, name)
    /\ torrents' =
         {IF SyncWrites(r, u, infohash, name)
          THEN [r EXCEPT !.name = name, !.normalized_name = clean_text_filter(name)]
          ELSE r : r \in torrents}
    /\ UNCHANGED <<nextId, files, now, up, sweepVars, swarmVars, rq, moreVars>>

IdleSy == [pc |-> "idle", user |-> 0, infohash |-> 0, name |-> NullStr]

\* the names a client's sync can carry for a torrent: none, or a new one
SyncNames == {NullStr, NamePack}

\* POST /sync of user u with one entry (infohash, name): the request arrives
\* and `result = await mysql.fetch_all(missing_query, ...)` reads
SyncStart(u, infohash, name) ==
    /\ sy.pc = "idle"
    /\ sy' = [pc |-> "update", user |-> u, infohash |-> infohash, name |-> name]
    /\ UNCHANGED <<catalogVars, now, up, sweepVars, swarmVars, rq, accounts, gr, pg, tk, pool, an, sb>>

\* `await mysql.execute(update_query, ...)` of that request, and the response
SyncApply ==
    /\ sy.pc = "update"
    /\ torrents' =
         {IF SyncWrites(r, sy.user, sy.infohash, sy.name)
          THEN [r EXCEPT !.name = sy.name,
                         !.normalized_name = clean_text_filter(sy.name)]
          ELSE r : r \in torrents}
    /\ sy' = IdleSy
    /\ UNCHANGED <<nextId, files, now, up, sweepVars, swarmVars, rq, accounts, gr, pg, tk, pool, an, sb>>

\* ------------------------------------------------------------------------
\* POST /sync with a list of entries: the ids it reports missing
\* ------------------------------------------------------------------------
\* SYNC_BATCH_SIZE of config.py, scaled to the lists of the model
SYNC_BATCH_SIZE == 2

\* list: `torrents` as sent; rows: the tuples not yet handed to a batch
IdleSb ==
    [pc |-> "idle", user |-> 0, list |-> <<>>, rows |-> <<>>, missing_ids |-> <<>>]

\* `if infohash:`
HasInfohash(e) == e.infohash # Null

\* `[t["id"] for t in ...]`
IdsOf(entries) == [i \in 1..Len(entries) |-> entries[i].id]

\* the WHERE of missing_query for one row of the derived table c:
\* t.hash_v2 IS NULL OR (t.hash_v1 IS NULL AND t.added_by_user_id = %s)
MissingRow(e, u) ==
    LET hit == {r \in torrents : r.hash_v2 = e.infohash}
    IN hit = {} \/ \E r \in hit : r.hash_v1 = Null /\ r.added_by_user_id = u

\* the next batch of itertools.batched(rows, SYNC_BATCH_SIZE)
Batch(rows) ==
    SubSeq(rows, 1, IF Len(rows) < SYNC_BATCH_SIZE THEN Len(rows) ELSE SYNC_BATCH_SIZE)

\* the request arrives: the loop that builds rows, and the mirrored response
\* when no entry has an infohash
SyncListStart(u, list) ==
    /\ sb.pc = "idle"
    /\ LET rows == SelectSeq(list, HasInfohash)
       IN sb' = IF rows = <<>>
                THEN [IdleSb EXCEPT !.pc = "done", !.user = u, !.list = list,
                                    !.missing_ids = IdsOf(list)]
                ELSE [IdleSb EXCEPT !.pc = "missing", !.user = u, !.list = list,
                                    !.rows = rows]
    /\ UNCHANGED <<catalogVars, now, up, sweepVars, swarmVars, rq, accounts, gr, sy, pg, tk, pool, an>>

\* `result = await mysql.fetch_all(missing_query, ...)` of the batch, and
\* `missing_ids.extend(...)`
SyncMissing ==
    /\ sb.pc = "missing"
    /\ LET IsMissing(e) == MissingRow(e, sb.user)
       IN sb' = [sb EXCEPT !.pc = "update",
                           !.missing_ids =
                               sb.missing_ids \o IdsOf(SelectSeq(Batch(sb.rows), IsMissing))]
    /\ UNCHANGED <<catalogVars, now, up, sweepVars, swarmVars, rq, accounts, gr, sy, pg, tk, pool, an>>

\* the row after update_query of a batch: the name of an entry that writes it
BatchWritten(r, u, batch) ==
    LET writers == {i \in 1..Len(batch) :
                       SyncWrites(r, u, batch[i].infohash, batch[i].name)}
    IN IF writers = {} THEN r
       ELSE LET e == batch[CHOOSE i \in writers : TRUE]
            IN [r EXCEPT !.name = e.name,
                         !.normalized_name = clean_text_filter(e.name)]

\* `await mysql.execute(update_query, ...)` of the batch; then the next batch,
\* or the response
SyncBatchUpdate ==
    /\ sb.pc = "update"
    /\ torrents' = {BatchWritten(r, sb.user, Batch(sb.rows)) : r \in torrents}
    /\ LET rest == SubSeq(sb.rows, Len(Batch(sb.rows)) + 1, Len(sb.rows))
       IN sb' = [sb EXCEPT !.rows = rest,
                           !.pc = IF rest = <<>> THEN "done" ELSE "missing"]
    /\ UNCHANGED <<nextId, files, now, up, sweepVars, swarmVars, rq, accounts, gr, sy, pg, tk, pool, an>>

\* the response has left; the next request may come
SyncListEnd ==
    /\ sb.pc = "done"
    /\ sb' = IdleSb
    /\ UNCHANGED <<catalogVars, now, up, sweepVars, swarmVars, rq, accounts, gr, sy, pg, tk, pool, an>>

\* time passes
Tick(max) ==
    /\ now < max
    /\ now' = now + 1
    /\ UNCHANGED <<catalogVars, up, sweepVars, swarmVars, rq, moreVars>>

\* ------------------------------------------------------------------------
\* The storage directory and its operator
\* ------------------------------------------------------------------------
\* os.path.exists(path)
PathExists(path) == \E f \in files : f.path = path

\* an administrator renames a stored torrent file inside TORRENTS_DIR
OperatorMove(f, a) ==
    /\ f \in files
    /\ ~PathExists(a)
    /\ files' = (files \ {f}) \cup {[path |-> a, content |-> f.content]}
    /\ UNCHANGED <<torrents, nextId, now, up, sweepVars, swarmVars, rq, moreVars>>

\* a stored torrent file is lost
FileLoss(f) ==
    /\ f \in files
    /\ files' = files \ {f}
    /\ UNCHANGED <<torrents, nextId, now, up, sweepVars, swarmVars, rq, moreVars>>

\* ------------------------------------------------------------------------
\* Reconciliation: check_torrent_database
\* ------------------------------------------------------------------------
RECURSIVE RowsById(_)
RowsById(S) ==
    IF S = {} THEN <<>>
    ELSE LET r == CHOOSE x \in S : \A y \in S : x.id <= y.id
         IN <<r>> \o RowsById(S \ {r})

\* queue: the futures in the order they completed; applied: how many of them
\* the loop has handled
IdleDb ==
    [pc |-> "idle", runs |-> 0, snapshot |-> <<>>, futures |-> <<>>, queue |-> <<>>,
     applied |-> 0, total |-> 0, updated |-> 0, removed |-> 0, raised |-> FALSE]

\* thread_executor.get_hash_executor: `if _hash_executor is None or
\* _hash_executor._shutdown_thread:` a new pool is made; the pool returned
get_hash_executor(p) == IF p = "none" \/ p = "shutdown" THEN "open" ELSE p

\* `hash_executor = thread_executor.get_hash_executor()`, then
\* `torrents = await mysql.fetch_all("SELECT * FROM torrents")`
DbFetch(max) ==
    /\ db.pc \in {"idle", "done"}
    /\ db.runs < max
    /\ db' = [IdleDb EXCEPT !.pc = "fetched", !.runs = db.runs + 1,
                            !.snapshot = RowsById(torrents)]
    /\ pool' = get_hash_executor(pool)
    /\ UNCHANGED <<catalogVars, now, up, stale, swarmVars, rq, accounts, gr, sy, pg, tk, an, sb>>

\* the SELECT fails on every attempt of _with_retry: check_torrent_database
\* raises with the pool it obtained, and the task's loop logs the error
DbFetchRaise(max) ==
    /\ db.pc \in {"idle", "done"}
    /\ db.runs < max
    /\ db' = [IdleDb EXCEPT !.pc = "done", !.runs = db.runs + 1, !.raised = TRUE]
    /\ pool' = get_hash_executor(pool)
    /\ UNCHANGED <<catalogVars, now, up, stale, swarmVars, rq, accounts, gr, sy, pg, tk, an, sb>>

\* `if torrent_path and os.path.exists(torrent_path): continue`
PathIsThere(row) == row.torrent_path # Null /\ PathExists(row.torrent_path)

\* the future submitted for one row
FutureOf(row) ==
    [hash_v1 |-> row.hash_v1, hash_v2 |-> row.hash_v2, status |-> "pending",
     match |-> Null]

\* the futures the first loop submits, in the order of the rows
RECURSIVE SubmitAll(_)
SubmitAll(rows) ==
    IF rows = <<>> THEN <<>>
    ELSE IF PathIsThere(Head(rows)) THEN SubmitAll(Tail(rows))
    ELSE <<FutureOf(Head(rows))>> \o SubmitAll(Tail(rows))

\* the loop over the fetched rows, and total_torrents = len(torrents)
DbSubmit ==
    /\ db.pc = "fetched"
    /\ db' = [db EXCEPT !.pc = "hashing", !.futures = SubmitAll(db.snapshot),
                        !.total = Len(db.snapshot)]
    /\ UNCHANGED <<catalogVars, now, up, stale, swarmVars, rq, moreVars>>

\* utils.find_matching_torrent(hash_v1, hash_v2): the paths of the stored files
\* whose recomputed hash is the row's
MatchingFiles(h1, h2) ==
    {f.path : f \in {g \in files : \/ get_torrent_hashes(g.content)[1] = h1
                                   \/ get_torrent_hashes(g.content)[2] = h2}}

\* what find_matching_torrent may return: a matching path, or None
find_matching_torrent(h1, h2) ==
    IF MatchingFiles(h1, h2) = {} THEN {Null} ELSE MatchingFiles(h1, h2)

\* a worker of the hash executor finishes future i with a result
DbHash(i, m) ==
    /\ db.pc = "hashing"
    /\ i \in 1..Len(db.futures)
    /\ db.futures[i].status = "pending"
    /\ m \in find_matching_torrent(db.futures[i].hash_v1, db.futures[i].hash_v2)
    /\ db' = [db EXCEPT !.futures[i].status = "ok", !.futures[i].match = m,
                        !.queue = Append(db.queue, i)]
    /\ UNCHANGED <<catalogVars, now, up, stale, swarmVars, rq, moreVars>>

\* a worker of the hash executor fails on future i (file I/O, hashing)
DbHashError(i) ==
    /\ db.pc = "hashing"
    /\ i \in 1..Len(db.futures)
    /\ db.futures[i].status = "pending"
    /\ db' = [db EXCEPT !.futures[i].status = "error",
                        !.queue = Append(db.queue, i)]
    /\ UNCHANGED <<catalogVars, now, up, stale, swarmVars, rq, moreVars>>

\* UPDATE torrents SET torrent_path = %s WHERE hash_v2 = %s
SetPath(rows, h2, path) ==
    {IF r.hash_v2 = h2 THEN [r EXCEPT !.torrent_path = path] ELSE r : r \in rows}

\* DELETE FROM torrents WHERE hash_v2 = %s
DeleteByHash(rows, h2) == {r \in rows : r.hash_v2 # h2}

\* a loop body whose test of the match is inverted
ApplyResult_Inverted(rows, fu) ==
    IF fu.status = "error" THEN rows
    ELSE IF fu.match = Null THEN SetPath(rows, fu.hash_v2, fu.match)
    ELSE DeleteByHash(rows, fu.hash_v2)

\* the table after the body of the `async for` loop has handled future fu
ApplyResult(rows, fu) ==
    IF fu.status = "error" THEN rows
    ELSE IF fu.match # Null THEN SetPath(rows, fu.hash_v2, fu.match)
    ELSE DeleteByHash(rows, fu.hash_v2)

\* the task's record after the body of the loop has handled future fu
CountResult(d, fu) ==
    [d EXCEPT !.applied = d.applied + 1,
              !.updated = IF fu.status = "ok" /\ fu.match # Null
                          THEN d.updated + 1 ELSE d.updated,
              !.removed = IF fu.status = "ok" /\ fu.match = Null
                          THEN d.removed + 1 ELSE d.removed]

\* the future the loop handles next: the earliest completed one not yet handled
NextFuture(d) == d.futures[d.queue[d.applied + 1]]

\* a loop without the try/except: the error of a future ends the sweep
DbApply_AbortOnError ==
    /\ db.pc = "hashing"
    /\ db.applied < Len(db.queue)
    /\ torrents' = ApplyResult(torrents, NextFuture(db))
    /\ db' = IF NextFuture(db).status = "error"
             THEN [db EXCEPT !.pc = "done"]
             ELSE CountResult(db, NextFuture(db))
    /\ UNCHANGED <<nextId, files, now, up, stale, swarmVars, rq, moreVars>>

\* one iteration of `async for future in asyncio.as_completed(futures)`
DbApply ==
    /\ db.pc = "hashing"
    /\ db.applied < Len(db.queue)
    /\ torrents' = ApplyResult(torrents, NextFuture(db))
    /\ db' = CountResult(db, NextFuture(db))
    /\ UNCHANGED <<nextId, files, now, up, stale, swarmVars, rq, moreVars>>

\* the loop is exhausted: hash_executor.shutdown() and return of the counts
DbFinish ==
    /\ db.pc = "hashing"
    /\ db.applied = Len(db.futures)
    /\ db' = [db EXCEPT !.pc = "done"]
    /\ pool' = "shutdown"
    /\ UNCHANGED <<catalogVars, now, up, stale, swarmVars, rq, accounts, gr, sy, pg, tk, an, sb>>

\* ------------------------------------------------------------------------
\* Staleness sweep: periodic_stale_check_task
\* ------------------------------------------------------------------------
\* list: the items of stale_torrents the loop has not reached yet; fetched:
\* stale_torrents as the query returned it
IdleStale == [pc |-> "idle", runs |-> 0, list |-> <<>>, removed |-> 0, fetched |-> <<>>]

\* a query that takes every row for stale
StaleRows_Everything == torrents

\* SELECT id, hash_v2 FROM torrents WHERE last_seen < NOW() - INTERVAL %s SECOND
StaleRows == {r \in torrents : r.last_seen < now - STALE_THRESHOLD}

StaleItems(rows) == [i \in 1..Len(rows) |-> [id |-> rows[i].id, hash_v2 |-> rows[i].hash_v2]]

StaleFetch ==
    /\ stale.pc \in {"idle", "done"}
    /\ stale.runs < MaxSweeps
    /\ stale' = [pc |-> "loop", runs |-> stale.runs + 1,
                 list |-> StaleItems(RowsById(StaleRows)), removed |-> 0,
                 fetched |-> StaleItems(RowsById(StaleRows))]
    /\ UNCHANGED <<catalogVars, now, up, db, swarmVars, rq, moreVars>>

\* `if os.path.exists(torrent_file): os.unlink(torrent_file)`
StaleUnlink ==
    /\ stale.pc = "loop"
    /\ stale.list # <<>>
    /\ files' = {f \in files : f.path # get_torrent_file(Head(stale.list).hash_v2)}
    /\ stale' = [stale EXCEPT !.pc = "delete"]
    /\ UNCHANGED <<torrents, nextId, now, up, db, swarmVars, rq, moreVars>>

\* DELETE FROM torrents WHERE id = %s
StaleDelete ==
    /\ stale.pc = "delete"
    /\ torrents' = {r \in torrents : r.id # Head(stale.list).id}
    /\ stale' = [stale EXCEPT !.pc = "loop", !.list = Tail(stale.list),
                              !.removed = stale.removed + 1]
    /\ UNCHANGED <<nextId, files, now, up, db, swarmVars, rq, moreVars>>

StaleFinish ==
    /\ stale.pc = "loop"
    /\ stale.list = <<>>
    /\ stale' = [stale EXCEPT !.pc = "done"]
    /\ UNCHANGED <<catalogVars, now, up, db, swarmVars, rq, moreVars>>

\* ------------------------------------------------------------------------
\* The swarm store (Redis) and its writer
\* ------------------------------------------------------------------------
\* the values of the field `left` the tracker writes
Lefts == {0, 7}

\* the tracker handles an announce of peer p for torrent t: the member p of
\* peers:<t> gets the score now, the hash peer:<t>:<p> the peer's fields
Announce(t, p, u, left) ==
    /\ redisUp
    /\ \A h \in peerh : (h.t = t /\ h.p = p) => h.user_id = u
    /\ peers' = {z \in peers : ~(z.t = t /\ z.p = p)}
                    \cup {[t |-> t, p |-> p, score |-> now]}
    /\ peerh' = {h \in peerh : ~(h.t = t /\ h.p = p)}
                    \cup {[t |-> t, p |-> p, user_id |-> u, left |-> left]}
    /\ UNCHANGED <<otherVars, now, redisUp, pt, su, userStats, sl, moreVars>>

\* the members of a set of sorted-set entries in the order Redis returns
\* them: by score, then by member
RECURSIVE ByScore(_)
ByScore(Z) ==
    IF Z = {} THEN <<>>
    ELSE LET z == CHOOSE x \in Z : \A y \in Z :
                      \/ x.score < y.score
                      \/ x.score = y.score /\ x.p <= y.p
         IN <<z.p>> \o ByScore(Z \ {z})

\* ZRANGEBYSCORE peers:<t> min max
zrangebyscore(t, min, max) ==
    ByScore({z \in peers : z.t = t /\ min <= z.score /\ z.score <= max})

\* HGETALL peer:<t>:<p>: the set holding the hash, empty when there is none
hgetall(t, p) == {h \in peerh : h.t = t /\ h.p = p}

\* ------------------------------------------------------------------------
\* utils.get_seeders_and_leechers
\* ------------------------------------------------------------------------
IdleSl == [pc |-> "idle", t |-> 0, ids |-> <<>>, seeders |-> 0, leechers |-> 0]

\* a listing that forgets the time window
SlListed_NoCutoff(t) ==
    IF redisUp
    THEN [IdleSl EXCEPT !.pc = "read", !.t = t, !.ids = zrangebyscore(t, 0, now)]
    ELSE [IdleSl EXCEPT !.pc = "raised", !.t = t]

\* now, cutoff and `peer_ids = await redis_conn.zrangebyscore(...)`
SlListed(t) ==
    IF redisUp
    THEN [IdleSl EXCEPT !.pc = "read", !.t = t,
                        !.ids = zrangebyscore(t, now - PEER_TIMEOUT, now)]
    ELSE [IdleSl EXCEPT !.pc = "raised", !.t = t]

\* `int(pdata.get("left", 1))`
IntLeft(pdata) == IF "left" \in DOMAIN pdata THEN pdata.left ELSE 1

\* the counters after the body of the loop has seen the hashes `found` of a peer
Counted(c, found) ==
    IF found = {} THEN c
    ELSE LET pdata == CHOOSE h \in found : TRUE
         IN IF IntLeft(pdata) = 0
            THEN [c EXCEPT !.seeders = c.seeders + 1]
            ELSE [c EXCEPT !.leechers = c.leechers + 1]

\* one iteration of `for pid in peer_ids`
SlAfterRead(c) ==
    IF redisUp
    THEN [Counted(c, hgetall(c.t, Head(c.ids))) EXCEPT !.ids = Tail(c.ids)]
    ELSE [c EXCEPT !.pc = "raised"]

\* a caller awaits get_seeders_and_leechers(t)
SlStart(t) ==
    /\ sl.pc = "idle"
    /\ sl' = SlListed(t)
    /\ UNCHANGED <<otherVars, now, peers, peerh, redisUp, pt, su, userStats, moreVars>>

SlRead ==
    /\ sl.pc = "read"
    /\ sl.ids # <<>>
    /\ sl' = SlAfterRead(sl)
    /\ UNCHANGED <<otherVars, now, peers, peerh, redisUp, pt, su, userStats, moreVars>>

\* `return seeders, leechers`
SlReturn ==
    /\ sl.pc = "read"
    /\ sl.ids = <<>>
    /\ sl' = [sl EXCEPT !.pc = "done"]
    /\ UNCHANGED <<otherVars, now, peers, peerh, redisUp, pt, su, userStats, moreVars>>

\* the caller has taken the result
SlTaken ==
    /\ sl.pc \in {"done", "raised"}
    /\ sl' = IdleSl
    /\ UNCHANGED <<otherVars, now, peers, peerh, redisUp, pt, su, userStats, moreVars>>

\* ------------------------------------------------------------------------
\* Peer expiry sweep: periodic_peer_timeout_task
\* ------------------------------------------------------------------------
\* before/ended: the clock when the pass began and when it ended (delta)
IdlePt ==
    [pc |-> "idle", runs |-> 0, cutoff |-> 0, keys |-> <<>>, purged |-> 0,
     before |-> 0, ended |-> 0, failed |-> FALSE, cursor |-> 0]

RECURSIVE Ascending(_)
Ascending(S) ==
    IF S = {} THEN <<>>
    ELSE LET x == CHOOSE a \in S : \A b \in S : a <= b
         IN <<x>> \o Ascending(S \ {x})

\* SCAN match="peers:*": the torrents that have a sorted set
ScanPeersKeys == Ascending({z.t : z \in peers})

\* `cursor, peer_keys = await redis_connection.scan(cursor=cursor,
\* match="peers:*", count=...)`: the next SCAN_COUNT keys after the cursor, and
\* the cursor of the call after this one, 0 when no key is left. A cursor
\* stands for the last key handed out, so that a key deleted during the scan
\* makes no other key be skipped
ScanPeers(cursor) ==
    LET rest == SelectSeq(ScanPeersKeys, LAMBDA t : t > cursor)
        batch == SubSeq(rest, 1, IF Len(rest) < SCAN_COUNT THEN Len(rest) ELSE SCAN_COUNT)
    IN [keys |-> batch,
        cursor |-> IF Len(rest) > SCAN_COUNT THEN batch[Len(batch)] ELSE 0]

\* the task's record when a call to Redis raised: the error is logged and
\* the pass is over
PtFailed(d) == [d EXCEPT !.pc = "done", !.keys = <<>>, !.ended = now, !.failed = TRUE]

\* cutoff = int(time.time()) - PEER_TIMEOUT, and the scan for the keys
PtStart ==
    /\ pt.pc \in {"idle", "done"}
    /\ pt.runs < MaxSweeps
    /\ pt' = LET d == [IdlePt EXCEPT !.pc = "purge", !.runs = pt.runs + 1,
                                     !.cutoff = now - PEER_TIMEOUT, !.before = now]
             IN IF redisUp
                THEN [d EXCEPT !.keys = ScanPeers(0).keys, !.cursor = ScanPeers(0).cursor]
                ELSE PtFailed(d)
    /\ UNCHANGED <<otherVars, now, peers, peerh, redisUp, su, userStats, sl, moreVars>>

\* a removal that empties the index whatever the scores
Expired_Everything(t, cutoff) == {z \in peers : z.t = t}

\* the members ZREMRANGEBYSCORE key 0 cutoff removes
Expired(t, cutoff) == {z \in peers : z.t = t /\ 0 <= z.score /\ z.score <= cutoff}

\* `purged = await redis_connection.zremrangebyscore(peers_key, 0, cutoff)`
PtPurge ==
    /\ pt.pc = "purge"
    /\ pt.keys # <<>>
    /\ IF redisUp
       THEN /\ peers' = peers \ Expired(Head(pt.keys), pt.cutoff)
            /\ pt' = [pt EXCEPT !.keys = Tail(pt.keys),
                                !.purged = pt.purged
                                    + Cardinality(Expired(Head(pt.keys), pt.cutoff))]
       ELSE /\ peers' = peers
            /\ pt' = PtFailed(pt)
    /\ UNCHANGED <<otherVars, now, peerh, redisUp, su, userStats, sl, moreVars>>

\* `if cursor == 0: break` did not leave the loop: the next call of scan
PtScan ==
    /\ pt.pc = "purge"
    /\ pt.keys = <<>>
    /\ pt.cursor # 0
    /\ pt' = IF redisUp
             THEN [pt EXCEPT !.keys = ScanPeers(pt.cursor).keys,
                             !.cursor = ScanPeers(pt.cursor).cursor]
             ELSE PtFailed(pt)
    /\ UNCHANGED <<otherVars, now, peers, peerh, redisUp, su, userStats, sl, moreVars>>

\* the cursor is back at 0: the pass is complete
PtFinish ==
    /\ pt.pc = "purge"
    /\ pt.keys = <<>>
    /\ pt.cursor = 0
    /\ pt' = [pt EXCEPT !.pc = "done", !.ended = now]
    /\ UNCHANGED <<otherVars, now, peers, peerh, redisUp, su, userStats, sl, moreVars>>

\* ------------------------------------------------------------------------
\* Stats refresh: periodic_stats_update_task
\* ------------------------------------------------------------------------
NoStats == [seeding |-> 0, leeching |-> 0]

\* all: all_user_stats, a function on the users met so far; todo: the users
\* whose UPDATE is still to come
IdleSu ==
    [pc |-> "idle", runs |-> 0, keys |-> <<>>, all |-> <<>>, todo |-> <<>>,
     before |-> 0, failed |-> FALSE]

RECURSIVE ByKey(_)
ByKey(H) ==
    IF H = {} THEN <<>>
    ELSE LET h == CHOOSE x \in H : \A y \in H :
                      x.t < y.t \/ (x.t = y.t /\ x.p <= y.p)
         IN <<[t |-> h.t, p |-> h.p]>> \o ByKey(H \ {h})

\* SCAN match="peer:*:*": the keys of the peer hashes
ScanPeerKeys == ByKey(peerh)

SuFailed(d) == [d EXCEPT !.pc = "done", !.keys = <<>>, !.todo = <<>>, !.failed = TRUE]

SuStart ==
    /\ su.pc \in {"idle", "done"}
    /\ su.runs < MaxSweeps
    /\ su' = LET d == [IdleSu EXCEPT !.pc = "scan", !.runs = su.runs + 1,
                                     !.before = now]
             IN IF redisUp THEN [d EXCEPT !.keys = ScanPeerKeys] ELSE SuFailed(d)
    /\ UNCHANGED <<otherVars, now, peers, peerh, redisUp, pt, userStats, sl, moreVars>>

\* the value of a field that int() raises ValueError on
NotANumber == 0 - 2

\* `user_id = int(peer_data["user_id"])`, `left = int(peer_data["left"])` return
Parses(pdata) == pdata.user_id # NotANumber /\ pdata.left # NotANumber

\* all_user_stats after the loop body has seen the hashes `found` of a key
Tallied(all, found) ==
    IF found = {} \/ \E h \in found : ~Parses(h) THEN all
    ELSE LET pdata == CHOOSE h \in found : TRUE
             old   == IF pdata.user_id \in DOMAIN all THEN all[pdata.user_id] ELSE NoStats
             new   == IF pdata.left = 0
                      THEN [old EXCEPT !.seeding = old.seeding + 1]
                      ELSE [old EXCEPT !.leeching = old.leeching + 1]
         IN [u \in DOMAIN all \cup {pdata.user_id} |->
                IF u = pdata.user_id THEN new ELSE all[u]]

\* `peer_data = await redis_connection.hgetall(peer_key)` and the tally
SuRead ==
    /\ su.pc = "scan"
    /\ su.keys # <<>>
    /\ su' = IF redisUp
             THEN [su EXCEPT !.keys = Tail(su.keys),
                             !.all = Tallied(su.all, hgetall(Head(su.keys).t, Head(su.keys).p))]
             ELSE SuFailed(su)
    /\ UNCHANGED <<otherVars, now, peers, peerh, redisUp, pt, userStats, sl, moreVars>>

\* the scan is over: the loop over all_user_stats.items() begins
SuTallyDone ==
    /\ su.pc = "scan"
    /\ su.keys = <<>>
    /\ su' = [su EXCEPT !.pc = "write", !.todo = Ascending(DOMAIN su.all)]
    /\ UNCHANGED <<otherVars, now, peers, peerh, redisUp, pt, userStats, sl, moreVars>>

\* UPDATE users SET seeding=%s, leeching=%s WHERE id=%s
SuWrite ==
    /\ su.pc = "write"
    /\ su.todo # <<>>
    /\ userStats' = [userStats EXCEPT ![Head(su.todo)] = su.all[Head(su.todo)]]
    /\ su' = [su EXCEPT !.todo = Tail(su.todo)]
    /\ UNCHANGED <<otherVars, now, peers, peerh, redisUp, pt, sl, moreVars>>

SuFinish ==
    /\ su.pc = "write"
    /\ su.todo = <<>>
    /\ su' = [su EXCEPT !.pc = "done"]
    /\ UNCHANGED <<otherVars, now, peers, peerh, redisUp, pt, userStats, sl, moreVars>>

\* ------------------------------------------------------------------------
\* GET /analytics (get_analytics): the counts it takes from the swarm
\* ------------------------------------------------------------------------
\* `return JSONResponse({})`
EmptyJson == [total_peers |-> Null, seeding_torrents |-> Null, leeching_torrents |-> Null]

IdleAn == [pc |-> "idle", keys |-> <<>>, result |-> EmptyJson]

\* the cursor loop over SCAN match="peer:*:*" that fills peer_keys
AnScan ==
    /\ an.pc = "idle"
    /\ an' = IF redisUp
             THEN [an EXCEPT !.pc = "pipe", !.keys = ScanPeerKeys]
             ELSE [an EXCEPT !.pc = "done", !.result = EmptyJson]
    /\ UNCHANGED <<otherVars, now, swarmVars, accounts, gr, sy, pg, tk, pool, sb>>

\* the hashes the pipeline of HGETALL returns for the keys (an empty one is
\* skipped by `if not peer_data: continue`)
Piped(keys) == UNION {hgetall(keys[i].t, keys[i].p) : i \in 1..Len(keys)}

\* the loop over zip(peer_keys, all_peers_data) and the sums after it;
\* `int(peer_data.get("left", 1))` raises ValueError into the `except
\* Exception` of the handler
Aggregated(data) ==
    IF \E h \in data : h.left = NotANumber THEN EmptyJson
    ELSE [total_peers |-> Cardinality(data),
          seeding_torrents |-> Cardinality({h.t : h \in {x \in data : x.left = 0}}),
          leeching_torrents |-> Cardinality({h.t : h \in {x \in data : x.left # 0}})]

\* `all_peers_data = await pipe.execute()` and the aggregation
AnAggregate ==
    /\ an.pc = "pipe"
    /\ an' = [an EXCEPT !.pc = "done",
                        !.result = IF redisUp THEN Aggregated(Piped(an.keys))
                                   ELSE EmptyJson]
    /\ UNCHANGED <<otherVars, now, swarmVars, accounts, gr, sy, pg, tk, pool, sb>>

\* ------------------------------------------------------------------------
\* GET /api (torznab_api) behind the track_stats middleware
\* ------------------------------------------------------------------------
\* query parameters: t, q, cat (the comma-separated list as sent, NoCat when
\* absent), season, ep, imdbid, tmdbid, tvdbid, artist, album
NoCat == NullStr

\* cat.split(",")
RECURSIVE Split(_)
Split(s) ==
    IF \A i \in 1..Len(s) : s[i] # ","
    THEN <<s>>
    ELSE LET k == CHOOSE i \in 1..Len(s) :
                      s[i] = "," /\ \A j \in 1..(i - 1) : s[j] # ","
         IN <<SubSeq(s, 1, k - 1)>> \o Split(SubSeq(s, k + 1, Len(s)))

\* whether int(c) returns: digits, surrounding blanks allowed
IntOk(c) ==
    /\ Strip(c) # <<>>
    /\ \A i \in 1..Len(Strip(c)) : IsDigit(Strip(c)[i])

\* int(c)
ParseInt(c) == ToInt(Strip(c), 1, Len(Strip(c)))

\* `cats = [int(c) for c in cat.split(",")]`
Cats(cat) == [i \in 1..Len(Split(cat)) |-> ParseInt(Split(cat)[i])]

\* whether the comprehension raises ValueError
CatsRaise(cat) ==
    cat # NoCat /\ \E i \in 1..Len(Split(cat)) : ~IntOk(Split(cat)[i])

NoQuery ==
    [t |-> "search", q |-> <<>>, cat |-> NoCat, season |-> Null, ep |-> Null,
     imdbid |-> Null, tmdbid |-> Null, tvdbid |-> Null, artist |-> NullStr,
     album |-> NullStr]

Queries ==
    { NoQuery,
      [NoQuery EXCEPT !.q = <<" ">>, !.cat = <<"5", "0", "0", "0">>],
      [NoQuery EXCEPT !.q = <<"S", "1">>],
      [NoQuery EXCEPT !.q = <<"b">>, !.cat = <<"3", "0", "0", "0", ",", "2", "0", "0", "0">>],
      [NoQuery EXCEPT !.t = "tvsearch", !.season = 1, !.ep = 2, !.tvdbid = 5],
      [NoQuery EXCEPT !.t = "tvsearch", !.season = 1],
      [NoQuery EXCEPT !.t = "movie", !.imdbid = 0],
      [NoQuery EXCEPT !.t = "music", !.artist = <<"A", "b">>] }

\* limit_param is the limit as sent, limit the local variable after the clamp;
\* attempt is the attempt of _with_retry the store call is in
IdleRq ==
    [pc |-> "idle", user |-> 0, query |-> NoQuery, limit_param |-> 0,
     limit |-> 0, offset |-> 0, include_my_uploads |-> FALSE, attempt |-> 0,
     wait |-> 0, results |-> <<>>, total |-> Null, items |-> <<>>, status |-> 0]

Min(a, b) == IF a <= b THEN a ELSE b

\* a test that takes only the empty query for a feed request
IsRss_EmptyOnly(qr) == qr.t = "search" /\ (qr.q = NullStr \/ qr.q = <<>>)

\* `t == "search" and (not q or q.strip() == "")`
IsRss(qr) == qr.t = "search" /\ (qr.q = NullStr \/ qr.q = <<>> \/ Strip(qr.q) = <<>>)

\* normalized_name LIKE '%text%' under the column's collation
Contains(s, text) ==
    \E i \in 0..(Len(s) - Len(text)) : CiEqual(SubSeq(s, i + 1, i + Len(text)), text)

\* a handler that never adds the ownership clause
OwnClause_Everyone(r, req) == TRUE

\* t.added_by_user_id != %s (NULL compares to nothing)
OwnClause(r, req) ==
    req.include_my_uploads
        \/ (r.added_by_user_id # Null /\ r.added_by_user_id # req.user)

\* t.category IN (...)
CatClause(r, qr) ==
    qr.cat = NoCat \/ \E i \in 1..Len(Cats(qr.cat)) : r.category = Cats(qr.cat)[i]

\* type clauses without `t.episode IS NULL` for a season asked alone
TypeClause_NoPackRule(r, qr) ==
    CASE qr.t = "tvsearch" ->
            /\ qr.season # Null =>
                   /\ r.season = qr.season
                   /\ qr.ep # Null => r.episode = qr.ep
            /\ r.artist = NullStr /\ r.album = NullStr
      [] qr.t \in {"movie", "music"} -> r.season = Null /\ r.episode = Null
      [] OTHER -> TRUE

\* the clauses of the search type
TypeClause(r, qr) ==
    CASE qr.t = "tvsearch" ->
            /\ qr.season # Null =>
                   /\ r.season = qr.season
                   /\ IF qr.ep # Null THEN r.episode = qr.ep ELSE r.episode = Null
            /\ r.artist = NullStr /\ r.album = NullStr
      [] qr.t = "movie" ->
            /\ r.season = Null /\ r.episode = Null
            /\ r.artist = NullStr /\ r.album = NullStr
      [] qr.t = "music" ->
            /\ r.season = Null /\ r.episode = Null
            /\ qr.artist # NullStr =>
                   r.artist # NullStr /\ CiEqual(r.artist, clean_text_filter(qr.artist))
            /\ qr.album # NullStr =>
                   r.album # NullStr /\ CiEqual(r.album, clean_text_filter(qr.album))
      [] OTHER -> TRUE

\* `if imdbid:` and the like: an id that is absent or 0 adds no clause
Given(id) == id # Null /\ id # 0

\* (t.imdbid = %s OR t.tmdbid = %s OR t.tvdbid = %s) over the ids given
OrClause(r, qr) ==
    (Given(qr.imdbid) \/ Given(qr.tmdbid) \/ Given(qr.tvdbid))
        => \/ Given(qr.imdbid) /\ r.imdbid = qr.imdbid
           \/ Given(qr.tmdbid) /\ r.tmdbid = qr.tmdbid
           \/ Given(qr.tvdbid) /\ r.tvdbid = qr.tvdbid

\* the WHERE clause of the request
Matches(r, req) ==
    IF IsRss(req.query)
    THEN OwnClause(r, req) /\ CatClause(r, req.query)
    ELSE /\ OwnClause(r, req)
         /\ req.query.q # NullStr
                => Contains(r.normalized_name, clean_text_filter(req.query.q))
         /\ CatClause(r, req.query)
         /\ TypeClause(r, req.query)
         /\ OrClause(r, req.query)

\* ORDER BY added_on DESC: the orders the store may return the rows S in
RECURSIVE NewestFirst(_)
NewestFirst(S) ==
    IF S = {} THEN {<<>>}
    ELSE UNION { {<<r>> \o rest : rest \in NewestFirst(S \ {r})} :
                 r \in {x \in S : \A y \in S : x.added_on >= y.added_on} }

\* LIMIT %s OFFSET %s
Page(rows, limit, offset) == SubSeq(rows, offset + 1, Min(Len(rows), offset + limit))

\* `total_matches = results[0]["total_matches"] if results else 0`, where the
\* column COUNT(*) OVER() holds the number of rows matched
TotalMatches(results, matched) == IF results # <<>> THEN matched ELSE 0

\* a clamp that lets every limit through
EffectiveLimit_Uncapped(limit) == limit

\* `limit = min(int(limit), 1000)`
EffectiveLimit(limit) == Min(limit, 1000)

\* the request arrives: track_stats queues its counters, the handler starts
\* and clamps the limit
ReqStart(u, qr, limit, offset, mine) ==
    /\ rq.pc = "idle"
    /\ rq' = [IdleRq EXCEPT !.pc = "query", !.user = u, !.query = qr,
                            !.limit_param = limit,
                            !.limit = EffectiveLimit(limit), !.offset = offset,
                            !.include_my_uploads = mine, !.attempt = 1]
    /\ UNCHANGED <<catalogVars, now, up, sweepVars, swarmVars, moreVars>>

\* the category list does not parse: ValueError leaves the handler before any
\* store call, and the server answers 500
ReqRaise ==
    /\ rq.pc = "query"
    /\ CatsRaise(rq.query.cat)
    /\ rq' = [rq EXCEPT !.pc = "done", !.status = 500]
    /\ UNCHANGED <<catalogVars, now, up, sweepVars, swarmVars, moreVars>>

\* whether the store accepts `... LIMIT %s OFFSET %s` with these values
\* (a negative LIMIT or OFFSET is a syntax error of the statement)
StatementOk(req) == req.limit >= 0 /\ req.offset >= 0

\* one attempt of fetch_all under _with_retry that the store rejects
ReqQueryError ==
    /\ rq.pc = "query"
    /\ ~CatsRaise(rq.query.cat)
    /\ ~StatementOk(rq)
    /\ rq' = RetryOrRaise(rq)
    /\ UNCHANGED <<catalogVars, now, up, sweepVars, swarmVars, moreVars>>

\* one attempt of fetch_all under _with_retry lost to a transient fault of the
\* store (lock wait, connection reset)
ReqQueryTransient ==
    /\ rq.pc = "query"
    /\ ~CatsRaise(rq.query.cat)
    /\ rq' = RetryOrRaise(rq)
    /\ UNCHANGED <<catalogVars, now, up, sweepVars, swarmVars, moreVars>>

\* `results = await mysql.fetch_all(query, query_params)` answers, and the total
ReqQuery ==
    /\ rq.pc = "query"
    /\ ~CatsRaise(rq.query.cat)
    /\ StatementOk(rq)
    /\ \E rows \in NewestFirst({r \in torrents : Matches(r, rq)}) :
          LET results == Page(rows, rq.limit, rq.offset)
          IN rq' = [rq EXCEPT !.pc = "enrich", !.results = results,
                              !.total = IF IsRss(rq.query) THEN Null
                                        ELSE TotalMatches(results, Len(rows))]
    /\ UNCHANGED <<catalogVars, now, up, sweepVars, swarmVars, moreVars>>

\* the loop reaches a row: `await utils.get_seeders_and_leechers(torrent_id)`
ReqEnrichStart ==
    /\ rq.pc = "enrich"
    /\ Len(rq.items) < Len(rq.results)
    /\ sl.pc = "idle"
    /\ sl' = SlListed(rq.results[Len(rq.items) + 1].id)
    /\ UNCHANGED <<otherVars, now, peers, peerh, redisUp, pt, su, userStats, moreVars>>

\* the item of a row: the counts returned, or 0 and 0 when the call raised
ItemOf(row, c) ==
    [id |-> row.id,
     seeders |-> IF c.pc = "raised" THEN 0 ELSE c.seeders,
     leechers |-> IF c.pc = "raised" THEN 0 ELSE c.leechers]

\* the call is over (try/except) and the item is appended
ReqEnrichEnd ==
    /\ rq.pc = "enrich"
    /\ sl.pc \in {"done", "raised"}
    /\ rq' = [rq EXCEPT !.items =
                  Append(rq.items, ItemOf(rq.results[Len(rq.items) + 1], sl))]
    /\ sl' = IdleSl
    /\ UNCHANGED <<catalogVars, now, up, sweepVars, peers, peerh, redisUp, pt, su,
                   userStats, moreVars>>

\* the handler returns its Response to the middleware
ReqRespond ==
    /\ rq.pc = "enrich"
    /\ Len(rq.items) = Len(rq.results)
    /\ sl.pc = "idle"
    /\ rq' = [rq EXCEPT !.pc = "track"]
    /\ UNCHANGED <<catalogVars, now, up, sweepVars, swarmVars, moreVars>>

\* track_stats: `await pipe.execute()`, then `return response`; an error of
\* the pipeline leaves the middleware and the server answers 500
ReqTrack ==
    /\ rq.pc = "track"
    /\ rq' = [rq EXCEPT !.pc = "done", !.status = IF redisUp THEN 200 ELSE 500]
    /\ UNCHANGED <<catalogVars, now, up, sweepVars, swarmVars, moreVars>>

\* ------------------------------------------------------------------------
\* The catalog under uploads, syncs and sweeps (the hash workers do not fail)
\* ------------------------------------------------------------------------

IdleSwarm ==
    /\ peers = {}
    /\ peerh = {}
    /\ redisUp = TRUE
    /\ pt = IdlePt
    /\ su = IdleSu
    /\ userStats = [u \in Users |-> [seeding |-> 0, leeching |-> 0]]
    /\ sl = IdleSl

IdleSearch == rq = IdleRq

\* ------------------------------------------------------------------------
\* GET /grab, and the table `users`
\* ------------------------------------------------------------------------
\* the counter of the row with hash_v2 = h, 0 when there is no such row
GrabsOf(h) ==
    LET hit == {r \in torrents : r.hash_v2 = h}
    IN IF hit = {} THEN 0 ELSE (CHOOSE r \in hit : TRUE).grabs

\* attempt is the attempt of _with_retry the store call is in, wait the time
\* of its last sleep; before holds the two counters as the request found them
IdleGr ==
    [pc |-> "idle", user |-> 0, infohash |-> 0, torrent |-> Null, status |-> 0,
     attempt |-> 0, wait |-> 0, before |-> [torrent |-> 0, user |-> 0]]

\* seen: the ids of the rows of the pages received so far
IdlePg ==
    [pc |-> "idle", user |-> 0, query |-> NoQuery, limit |-> 0, offset |-> 0,
     mine |-> FALSE, seen |-> <<>>]

\* the tasks lifespan creates
Tasks == {"stale_check", "database_check", "peer_timeout", "stats_update"}

\* a task is created ready to run its first iteration; last is how the
\* iteration before ended
IdleTk == [k \in Tasks |-> [pc |-> "wait", last |-> "none"]]

\* every user of the model has a row, with the column default grabs = 0
IdleMore ==
    /\ accounts = [u \in Users |-> [present |-> TRUE, grabs |-> 0]]
    /\ gr = IdleGr
    /\ sy = IdleSy
    /\ pg = IdlePg
    /\ tk = IdleTk
    /\ pool = "none"
    /\ an = IdleAn
    /\ sb = IdleSb

\* the infohashes a client can ask for: those of the contents, and one of a
\* torrent that was never uploaded
Infohashes == {get_torrent_hashes(c)[2] : c \in 1..(MaxContent + 1)}

\* the request arrives with a valid grab token of user u
GrabStart(u, h) ==
    /\ gr.pc = "idle"
    /\ accounts[u].present
    /\ accounts[u].grabs < MaxGrabs
    /\ gr' = [IdleGr EXCEPT !.pc = "find", !.user = u, !.infohash = h, !.attempt = 1,
                            !.before = [torrent |-> GrabsOf(h),
                                        user |-> accounts[u].grabs]]
    /\ UNCHANGED <<catalogVars, now, up, sweepVars, swarmVars, rq, accounts, sy, pg, tk, pool, an, sb>>

\* a grab that serves a row whatever is on disk
GrabFound_NoFileCheck(req, r) ==
    [req EXCEPT !.pc = "count", !.torrent = r.id, !.attempt = 1]

\* the request once fetch_one has answered with row r: os.path.exists of the
\* hash-named file, then the read of it
GrabFound(req, r) ==
    IF PathExists(get_torrent_file(r.hash_v2))
    THEN [req EXCEPT !.pc = "count", !.torrent = r.id, !.attempt = 1]
    ELSE [req EXCEPT !.pc = "done", !.status = 404]

\* `torrent = await mysql.fetch_one(... WHERE hash_v2 = %s LIMIT 1)` and the
\* checks up to the next store call
GrabFind ==
    /\ gr.pc = "find"
    /\ LET hit == {r \in torrents : r.hash_v2 = gr.infohash}
       IN IF hit = {}
          THEN gr' = [gr EXCEPT !.pc = "done", !.status = 404]
          ELSE \E r \in hit : gr' = GrabFound(gr, r)
    /\ UNCHANGED <<catalogVars, now, up, sweepVars, swarmVars, rq, accounts, sy, pg, tk, pool, an, sb>>

\* UPDATE torrents SET grabs = grabs + 1 WHERE id=%s
GrabCountTorrent ==
    /\ gr.pc = "count"
    /\ torrents' = {IF r.id = gr.torrent THEN [r EXCEPT !.grabs = r.grabs + 1] ELSE r :
                      r \in torrents}
    /\ gr' = [gr EXCEPT !.pc = "count_user", !.attempt = 1]
    /\ UNCHANGED <<nextId, files, now, up, sweepVars, swarmVars, rq, accounts, sy, pg, tk, pool, an, sb>>

\* UPDATE users SET grabs = grabs + 1 WHERE id=%s, then the response
GrabCountUser ==
    /\ gr.pc = "count_user"
    /\ accounts' = IF accounts[gr.user].present
                   THEN [accounts EXCEPT ![gr.user].grabs = accounts[gr.user].grabs + 1]
                   ELSE accounts
    /\ gr' = [gr EXCEPT !.pc = "done", !.status = 200]
    /\ UNCHANGED <<catalogVars, now, up, sweepVars, swarmVars, rq, sy, pg, tk, pool, an, sb>>

\* one attempt of a store call of grab fails inside _with_retry: the sleep and
\* the next attempt, or, after the last attempt, the exception that leaves the
\* handler (500)
GrabAttemptFails ==
    /\ gr.pc \in {"find", "count", "count_user"}
    /\ gr' = RetryOrRaise(gr)
    /\ UNCHANGED <<catalogVars, now, up, sweepVars, swarmVars, rq, accounts, sy, pg, tk, pool, an, sb>>

\* the response has left; the next request may come
GrabEnd ==
    /\ gr.pc = "done"
    /\ gr' = IdleGr
    /\ UNCHANGED <<catalogVars, now, up, sweepVars, swarmVars, rq, accounts, sy, pg, tk, pool, an, sb>>

\* a users table whose deletion takes the user's torrents along
AfterUserDelete_Cascade(rows, u) == {r \in rows : r.added_by_user_id # u}

\* the torrents once the row of user u is deleted: CONSTRAINT
\* torrents_users_id_fk ... ON DELETE SET NULL
AfterUserDelete(rows, u) ==
    {IF r.added_by_user_id = u THEN [r EXCEPT !.added_by_user_id = Null] ELSE r :
       r \in rows}

\* user_helper.delete_user: DELETE FROM users WHERE id = %s
delete_user(u) ==
    /\ accounts[u].present
    /\ accounts' = [accounts EXCEPT ![u] = [present |-> FALSE, grabs |-> 0]]
    /\ torrents' = AfterUserDelete(torrents, u)
    /\ UNCHANGED <<nextId, files, now, up, sweepVars, swarmVars, rq, gr, sy, pg, tk, pool, an, sb>>

Init ==
    /\ torrents = {}
    /\ nextId = 1
    /\ files = {}
    /\ now = 0
    /\ up = [s \in Slots |-> IdleUpload]
    /\ db = IdleDb
    /\ stale = IdleStale
    /\ IdleSwarm
    /\ IdleSearch
    /\ IdleMore

Next ==
    \/ \E s \in Slots, u \in Users, c \in Contents, m \in Metas : UploadStart(s, u, c, m)
    \/ \E s \in Slots : UploadCheck(s)
    \/ \E s \in Slots : UploadUpdate(s)
    \/ \E s \in Slots : UploadMove(s)
    \/ \E s \in Slots : UploadInsert(s)
    \/ \E u \in Users, c \in Contents : SyncUpdate(u, get_torrent_hashes(c)[2], NamePack)
    \/ DbFetch(MaxSweeps)
    \/ DbSubmit
    \/ \E i \in 1..MaxContent, m \in {Null} \cup {g.path : g \in files} : DbHash(i, m)
    \/ DbApply
    \/ DbFinish
    \/ StaleFetch
    \/ StaleUnlink
    \/ StaleDelete
    \/ StaleFinish
    \/ Tick(MaxTime)

Spec == Init /\ [][Next]_vars

\* ------------------------------------------------------------------------
\* Reconciliation of an uploaded catalog against a storage directory that an
\* operator reorganises
\* ------------------------------------------------------------------------
ReconMeta == CHOOSE m \in Metas : m.category = 5000

\* every content has been uploaded: its row and its hash-named file exist
InitRecon ==
    /\ torrents = {NewRow(c, 1, c, ReconMeta, 0) : c \in Contents}
    /\ nextId = MaxContent + 1
    /\ files = {[path |-> get_torrent_file(get_torrent_hashes(c)[2]), content |-> c] :
                  c \in Contents}
    /\ now = 0
    /\ up = [s \in Slots |-> IdleUpload]
    /\ db = IdleDb
    /\ stale = IdleStale
    /\ IdleSwarm
    /\ IdleSearch
    /\ IdleMore

NextRecon ==
    \/ \E f \in files, a \in AltPaths : OperatorMove(f, a)
    \/ \E f \in files : FileLoss(f)
    \/ DbFetch(MaxReconRuns)
    \/ DbSubmit
    \/ \E i \in 1..MaxContent, m \in {Null} \cup {g.path : g \in files} : DbHash(i, m)
    \/ \E i \in 1..MaxContent : DbHashError(i)
    \/ DbApply
    \/ DbFinish
    \/ StaleFetch
    \/ StaleUnlink
    \/ StaleDelete
    \/ StaleFinish
    \/ Tick(MaxTime)

SpecRecon == InitRecon /\ [][NextRecon]_vars

\* ------------------------------------------------------------------------
\* The swarm store under announces and counting calls
\* ------------------------------------------------------------------------
InitSwarm ==
    /\ torrents = {}
    /\ nextId = 1
    /\ files = {}
    /\ now = 0
    /\ up = [s \in Slots |-> IdleUpload]
    /\ db = IdleDb
    /\ stale = IdleStale
    /\ IdleSwarm
    /\ IdleSearch
    /\ IdleMore

NextSwarm ==
    \/ \E t \in SwarmTorrents, p \in PeerIds, left \in Lefts :
           Announce(t, p, OwnerOf(p), left)
    \/ \E t \in SwarmTorrents : SlStart(t)
    \/ SlRead
    \/ SlReturn
    \/ SlTaken
    \/ Tick(MaxTime)

SpecSwarm == InitSwarm /\ [][NextSwarm]_vars

\* ------------------------------------------------------------------------
\* The swarm store under announces, the expiry sweep and the stats refresh
\* ------------------------------------------------------------------------
\* every user runs one client
NextExpiry ==
    \/ \E t \in SwarmTorrents, u \in Users, left \in Lefts : Announce(t, u, u, left)
    \/ PtStart
    \/ PtPurge
    \/ PtFinish
    \/ SuStart
    \/ SuRead
    \/ SuTallyDone
    \/ SuWrite
    \/ SuFinish
    \/ Tick(MaxSwarmTime)

SpecExpiry == InitSwarm /\ [][NextExpiry]_vars

\* ------------------------------------------------------------------------
\* The stats refresh with the swarm store quiet while it runs
\* ------------------------------------------------------------------------
\* no refresh iteration is between its first scan and its last UPDATE
SuQuiet == su.pc \in {"idle", "done"}

NextRefresh ==
    \/ \E t \in SwarmTorrents, u \in Users, left \in Lefts :
          SuQuiet /\ Announce(t, u, u, left)
    \/ SuQuiet /\ PtStart
    \/ SuQuiet /\ PtPurge
    \/ SuQuiet /\ PtFinish
    \/ SuStart
    \/ SuRead
    \/ SuTallyDone
    \/ SuWrite
    \/ SuFinish
    \/ Tick(MaxSwarmTime)

SpecRefresh == InitSwarm /\ [][NextRefresh]_vars

\* ------------------------------------------------------------------------
\* One search request over an uploaded catalog and a swarm
\* ------------------------------------------------------------------------
SearchMetas == {m \in Metas : m.category \in CategoryIds}

\* the rows of a catalog in which content c, uploaded by user OwnerOf(c), has
\* id c; shapes pairs a content with the row its upload form gives
Placed(shapes) ==
    { [r EXCEPT !.id = c, !.added_by_user_id = OwnerOf(c),
                !.hash_v1 = get_torrent_hashes(c)[1],
                !.hash_v2 = get_torrent_hashes(c)[2]] :
        <<c, r>> \in shapes }

\* the rows the upload form can give, for the two times of upload
SearchShapes == UNION { {NewRow(0, 0, 0, m, t) : t \in 0..1} : m \in SearchMetas }

InitSearch ==
    /\ \E present \in SUBSET Contents : \E f \in [present -> SearchShapes] :
          /\ torrents = Placed({<<c, f[c]>> : c \in present})
          /\ files = {[path |-> get_torrent_file(get_torrent_hashes(c)[2]),
                       content |-> c] : c \in present}
    /\ nextId = MaxContent + 1
    /\ now = 2
    /\ up = [s \in Slots |-> IdleUpload]
    /\ db = IdleDb
    /\ stale = IdleStale
    /\ \E live \in BOOLEAN :
          /\ peers = IF live THEN {[t |-> 1, p |-> 1, score |-> 1],
                                   [t |-> 1, p |-> 2, score |-> 0]} ELSE {}
          /\ peerh = IF live THEN {[t |-> 1, p |-> 1, user_id |-> 1, left |-> 0],
                                   [t |-> 1, p |-> 2, user_id |-> 2, left |-> 7]} ELSE {}
    /\ redisUp \in BOOLEAN
    /\ pt = IdlePt
    /\ su = IdleSu
    /\ userStats = [u \in Users |-> NoStats]
    /\ sl = IdleSl
    /\ IdleSearch
    /\ IdleMore

NextSearch ==
    \/ \E u \in Users, qr \in Queries, limit \in 0..MaxLimit, offset \in 0..MaxOffset,
          mine \in BOOLEAN : ReqStart(u, qr, limit, offset, mine)
    \/ ReqQuery
    \/ ReqEnrichStart
    \/ SlRead
    \/ SlReturn
    \/ ReqEnrichEnd
    \/ ReqRespond
    \/ ReqTrack

SpecSearch == InitSearch /\ [][NextSearch]_vars

\* ------------------------------------------------------------------------
\* Searches over a catalog whose uploaders can be deleted
\* ------------------------------------------------------------------------
\* a request is served for a user whose api key is still in the users table
NextOrphan ==
    \/ \E u \in Users, qr \in Queries, limit \in 0..MaxLimit, offset \in 0..MaxOffset,
          mine \in BOOLEAN : accounts[u].present /\ ReqStart(u, qr, limit, offset, mine)
    \/ ReqQuery
    \/ ReqEnrichStart
    \/ SlRead
    \/ SlReturn
    \/ ReqEnrichEnd
    \/ ReqRespond
    \/ ReqTrack
    \/ \E u \in Users : delete_user(u)

SpecOrphan == InitSearch /\ [][NextOrphan]_vars

\* ------------------------------------------------------------------------
\* One search request over a catalog of every kind of row, with requests a
\* client can send: any search type, blank and malformed values
\* ------------------------------------------------------------------------
NamePack1 == <<"A", " ", "S", "1">>

\* the upload forms behind the catalog: an episode, a season pack, a movie,
\* an album, and an episode uploaded with an artist
FilterMetas ==
    { [NoMeta EXCEPT !.name = NameEpisode, !.category = 5000, !.tvdbid = 5],
      [NoMeta EXCEPT !.name = NamePack1, !.category = 5000, !.imdbid = 2],
      [NoMeta EXCEPT !.name = NamePlain, !.category = 2000, !.imdbid = 2,
                     !.tmdbid = 5],
      [NoMeta EXCEPT !.name = NamePlain, !.category = 3000,
                     !.artist = <<"A", " ", "b">>, !.album = <<"X">>],
      [NoMeta EXCEPT !.name = NameEpisode, !.category = 3000,
                     !.artist = <<"A", " ", "b">>] }

FilterShapes == UNION { {NewRow(0, 0, 0, m, t) : t \in 0..1} : m \in FilterMetas }

FilterQueries ==
    { NoQuery,
      [NoQuery EXCEPT !.q = <<" ">>, !.cat = <<"5", "0", "0", "0">>],
      [NoQuery EXCEPT !.imdbid = 2],
      [NoQuery EXCEPT !.cat = <<"5", "0", "0", "0", ",", "x">>],
      [NoQuery EXCEPT !.q = <<"b">>],
      [NoQuery EXCEPT !.q = <<"b">>, !.imdbid = 2],
      [NoQuery EXCEPT !.q = <<"b">>, !.cat = <<"x">>],
      [NoQuery EXCEPT !.t = "tvsearch"],
      [NoQuery EXCEPT !.t = "tvsearch", !.season = 1],
      [NoQuery EXCEPT !.t = "tvsearch", !.season = 1, !.ep = 2],
      [NoQuery EXCEPT !.t = "tvsearch", !.ep = 2],
      [NoQuery EXCEPT !.t = "tvsearch", !.tvdbid = 5, !.imdbid = 2],
      [NoQuery EXCEPT !.t = "movie"],
      [NoQuery EXCEPT !.t = "movie", !.imdbid = 0],
      [NoQuery EXCEPT !.t = "movie", !.imdbid = 2, !.tmdbid = 1],
      [NoQuery EXCEPT !.t = "music"],
      [NoQuery EXCEPT !.t = "music", !.artist = <<"A", "b">>] }

\* limits and offsets a client can send: negative, small, at and over the cap
FilterLimits == {0 - 1, 1, 1000, 1001}
FilterOffsets == {0 - 1, 0, 1}

InitFilter ==
    /\ \E present \in SUBSET Contents : \E f \in [present -> FilterShapes] :
          /\ torrents = Placed({<<c, f[c]>> : c \in present})
          /\ files = {[path |-> get_torrent_file(get_torrent_hashes(c)[2]),
                       content |-> c] : c \in present}
    /\ nextId = MaxContent + 1
    /\ now = 2
    /\ up = [s \in Slots |-> IdleUpload]
    /\ db = IdleDb
    /\ stale = IdleStale
    /\ IdleSwarm
    /\ IdleSearch
    /\ IdleMore

NextFilter ==
    \/ \E u \in Users, qr \in FilterQueries, limit \in FilterLimits,
          offset \in FilterOffsets, mine \in BOOLEAN :
          ReqStart(u, qr, limit, offset, mine)
    \/ ReqRaise
    \/ ReqQueryError
    \/ ReqQuery
    \/ ReqEnrichStart
    \/ SlReturn
    \/ ReqEnrichEnd
    \/ ReqRespond
    \/ ReqTrack

SpecFilter == InitFilter /\ [][NextFilter]_vars

\* ------------------------------------------------------------------------
\* One search request against a store whose attempts can fail
\* ------------------------------------------------------------------------
RetryQueries ==
    { NoQuery,
      [NoQuery EXCEPT !.t = "movie"],
      [NoQuery EXCEPT !.q = <<"b">>, !.cat = <<"x">>] }

InitRetry ==
    /\ torrents = Placed({<<c, NewRow(0, 0, 0, NoMeta, c - 1)>> : c \in Contents})
    /\ files = {[path |-> get_torrent_file(get_torrent_hashes(c)[2]),
                 content |-> c] : c \in Contents}
    /\ nextId = MaxContent + 1
    /\ now = 2
    /\ up = [s \in Slots |-> IdleUpload]
    /\ db = IdleDb
    /\ stale = IdleStale
    /\ IdleSwarm
    /\ IdleSearch
    /\ IdleMore

NextRetry ==
    \/ \E u \in Users, qr \in RetryQueries, limit \in FilterLimits, mine \in BOOLEAN :
          ReqStart(u, qr, limit, 0, mine)
    \/ ReqRaise
    \/ ReqQueryError
    \/ ReqQueryTransient
    \/ ReqQuery
    \/ ReqEnrichStart
    \/ SlReturn
    \/ ReqEnrichEnd
    \/ ReqRespond
    \/ ReqTrack

SpecRetry == InitRetry /\ [][NextRetry]_vars

\* ------------------------------------------------------------------------
\* Grabs and user deletion over an uploaded catalog whose files can be lost
\* ------------------------------------------------------------------------
InitGrab ==
    /\ torrents = Placed({<<c, NewRow(0, 0, 0, ReconMeta, 0)>> : c \in Contents})
    /\ files = {[path |-> get_torrent_file(get_torrent_hashes(c)[2]), content |-> c] :
                  c \in Contents}
    /\ nextId = MaxContent + 1
    /\ now = 0
    /\ up = [s \in Slots |-> IdleUpload]
    /\ db = IdleDb
    /\ stale = IdleStale
    /\ IdleSwarm
    /\ IdleSearch
    /\ IdleMore

NextGrab ==
    \/ \E u \in Users, h \in Infohashes : GrabStart(u, h)
    \/ GrabFind
    \/ GrabCountTorrent
    \/ GrabCountUser
    \/ GrabEnd
    \/ \E f \in files : FileLoss(f)
    \/ \E u \in Users : delete_user(u)

SpecGrab == InitGrab /\ [][NextGrab]_vars

\* ------------------------------------------------------------------------
\* Syncs of lists over an uploaded catalog
\* ------------------------------------------------------------------------
\* the entries a client can send: with the hash of a content, with a hash the
\* server never saw, or with no infohash; the local id is the position
SyncLists ==
    UNION { { [i \in 1..n |-> [id |-> i, infohash |-> f[i][1], name |-> f[i][2]]] :
                f \in [1..n -> ({Null} \cup Infohashes) \X SyncNames] } :
            n \in 0..MaxList }

\* some contents have been uploaded by their owners
InitSyncList ==
    /\ \E present \in SUBSET Contents :
          /\ torrents = Placed({<<c, NewRow(0, 0, 0, ReconMeta, 0)>> : c \in present})
          /\ files = {[path |-> get_torrent_file(get_torrent_hashes(c)[2]),
                       content |-> c] : c \in present}
    /\ nextId = MaxContent + 1
    /\ now = 0
    /\ up = [s \in Slots |-> IdleUpload]
    /\ db = IdleDb
    /\ stale = IdleStale
    /\ IdleSwarm
    /\ IdleSearch
    /\ IdleMore

NextSyncList ==
    \/ \E u \in Users, list \in SyncLists : SyncListStart(u, list)
    \/ SyncMissing
    \/ SyncBatchUpdate
    \/ SyncListEnd

SpecSyncList == InitSyncList /\ [][NextSyncList]_vars

\* ------------------------------------------------------------------------
\* Grabs whose store calls can fail
\* ------------------------------------------------------------------------
NextFlaky ==
    \/ \E u \in Users, h \in Infohashes :
          (\A r \in torrents : r.grabs < MaxGrabs) /\ GrabStart(u, h)
    \/ GrabFind
    \/ GrabCountTorrent
    \/ GrabCountUser
    \/ GrabAttemptFails
    \/ GrabEnd
    \/ \E f \in files : FileLoss(f)

SpecFlaky == InitGrab /\ [][NextFlaky]_vars

\* ------------------------------------------------------------------------
\* Grabs after one reconciliation sweep of a reorganised storage directory
\* ------------------------------------------------------------------------
\* the operator acts before the sweep, the clients after it
NextServe ==
    \/ \E f \in files, a \in AltPaths : db.pc = "idle" /\ OperatorMove(f, a)
    \/ \E f \in files : db.pc = "idle" /\ FileLoss(f)
    \/ DbFetch(MaxSweeps)
    \/ DbSubmit
    \/ \E i \in 1..MaxContent, m \in {Null} \cup {g.path : g \in files} : DbHash(i, m)
    \/ DbApply
    \/ DbFinish
    \/ \E u \in Users, h \in Infohashes : db.pc = "done" /\ GrabStart(u, h)
    \/ GrabFind
    \/ GrabCountTorrent
    \/ GrabCountUser
    \/ GrabEnd

SpecServe == InitRecon /\ [][NextServe]_vars

\* ------------------------------------------------------------------------
\* Uploads and syncs of several users over one catalog
\* ------------------------------------------------------------------------
NextOwner ==
    \/ \E s \in Slots, u \in Users, c \in Contents, m \in Metas : UploadStart(s, u, c, m)
    \/ \E s \in Slots : UploadCheck(s)
    \/ \E s \in Slots : UploadUpdate(s)
    \/ \E s \in Slots : UploadMove(s)
    \/ \E s \in Slots : UploadInsert(s)
    \/ \E u \in Users, c \in Contents, name \in SyncNames :
          SyncStart(u, get_torrent_hashes(c)[2], name)
    \/ SyncApply

SpecOwner == Init /\ [][NextOwner]_vars

\* ------------------------------------------------------------------------
\* Shutdown: lifespan after `yield`
\* ------------------------------------------------------------------------
\* `for task in app_tasks: task.cancel()`: CancelledError is raised in each
\* task at the await where it is suspended; the `except Exception` of the
\* loops does not catch it, so each task ends where it stands
Shutdown ==
    /\ stale.pc # "cancelled"
    /\ stale' = [stale EXCEPT !.pc = "cancelled"]
    /\ db' = [db EXCEPT !.pc = "cancelled"]
    /\ pt' = [pt EXCEPT !.pc = "cancelled"]
    /\ su' = [su EXCEPT !.pc = "cancelled"]
    /\ tk' = [k \in Tasks |-> [tk[k] EXCEPT !.pc = "cancelled"]]
    /\ UNCHANGED <<catalogVars, now, up, peers, peerh, redisUp, userStats, sl, rq,
                   accounts, gr, sy, pg, pool, an, sb>>

\* the two catalog sweeps over an uploaded catalog, until the server stops
NextShutdown ==
    \/ DbFetch(MaxSweeps)
    \/ DbSubmit
    \/ \E i \in 1..MaxContent, m \in {Null} \cup {g.path : g \in files} : DbHash(i, m)
    \/ DbApply
    \/ DbFinish
    \/ StaleFetch
    \/ StaleUnlink
    \/ StaleDelete
    \/ StaleFinish
    \/ Tick(MaxTime)
    \/ Shutdown

SpecShutdown == InitRecon /\ [][NextShutdown]_vars

\* ------------------------------------------------------------------------
\* Reconciliation runs one after another, the store failing at times
\* ------------------------------------------------------------------------
NextPool ==
    \/ \E f \in files : FileLoss(f)
    \/ DbFetch(MaxReconRuns + 1)
    \/ DbFetchRaise(MaxReconRuns + 1)
    \/ DbSubmit
    \/ \E i \in 1..MaxContent, m \in {Null} \cup {g.path : g \in files} : DbHash(i, m)
    \/ \E i \in 1..MaxContent : DbHashError(i)
    \/ DbApply
    \/ DbFinish

SpecPool == InitRecon /\ [][NextPool]_vars

\* ------------------------------------------------------------------------
\* The loops of the periodic tasks: `while True: try: <iteration> except
\* Exception: <log>; await asyncio.sleep(INTERVAL)`
\* ------------------------------------------------------------------------
\* the task is scheduled for the first time, or its sleep is over: the next
\* iteration begins
TaskStart(k) ==
    /\ tk[k].pc = "wait"
    /\ tk' = [tk EXCEPT ![k].pc = "run"]
    /\ UNCHANGED <<catalogVars, now, up, sweepVars, swarmVars, rq, accounts, gr, sy, pg, pool, an, sb>>

\* the iteration reaches the end of the try block, and the task sleeps
TaskOk(k) ==
    /\ tk[k].pc = "run"
    /\ tk' = [tk EXCEPT ![k] = [pc |-> "wait", last |-> "ok"]]
    /\ UNCHANGED <<catalogVars, now, up, sweepVars, swarmVars, rq, accounts, gr, sy, pg, pool, an, sb>>

\* a loop whose handler lets the exception end the task
TaskRaise_Ends(k) ==
    /\ tk[k].pc = "run"
    /\ tk' = [tk EXCEPT ![k] = [pc |-> "ended", last |-> "raised"]]
    /\ UNCHANGED <<catalogVars, now, up, sweepVars, swarmVars, rq, accounts, gr, sy, pg, pool, an, sb>>

\* the iteration raises (the store after its retries, Redis, a file): the
\* `except Exception` logs the error, and the task sleeps
TaskRaise(k) ==
    /\ tk[k].pc = "run"
    /\ tk' = [tk EXCEPT ![k] = [pc |-> "wait", last |-> "raised"]]
    /\ UNCHANGED <<catalogVars, now, up, sweepVars, swarmVars, rq, accounts, gr, sy, pg, pool, an, sb>>

NextTasks ==
    \/ \E k \in Tasks : TaskStart(k)
    \/ \E k \in Tasks : TaskOk(k)
    \/ \E k \in Tasks : TaskRaise(k)
    \/ Shutdown

\* the event loop runs every task that is ready, a sleep ends, and a call an
\* iteration awaits returns or raises
FairTasks ==
    \A k \in Tasks : WF_vars(TaskStart(k)) /\ WF_vars(TaskOk(k) \/ TaskRaise(k))

SpecTasks == Init /\ [][NextTasks]_vars /\ FairTasks

\* ------------------------------------------------------------------------
\* A client that reads a search page by page: the same filter and limit, the
\* offset advancing by the limit, until a page comes back short
\* ------------------------------------------------------------------------
PagingQueries == {NoQuery, [NoQuery EXCEPT !.q = <<"S", "1">>]}

PageBegin(u, qr, limit, mine) ==
    /\ pg.pc = "idle"
    /\ pg' = [IdlePg EXCEPT !.pc = "paging", !.user = u, !.query = qr,
                            !.limit = limit, !.mine = mine]
    /\ UNCHANGED <<catalogVars, now, up, sweepVars, swarmVars, rq, accounts, gr, sy, tk, pool, an, sb>>

\* GET /api?...&limit=<limit>&offset=<offset>
PageRequest ==
    /\ pg.pc = "paging"
    /\ ReqStart(pg.user, pg.query, pg.limit, pg.offset, pg.mine)

\* the ids of the rows of a page, in the order of the response
RowIds(results) == [i \in 1..Len(results) |-> results[i].id]

\* the response arrives; a page shorter than the limit is the last one
PageCollect ==
    /\ pg.pc = "paging"
    /\ rq.pc = "done"
    /\ rq.status = 200
    /\ pg' = [pg EXCEPT !.seen = pg.seen \o RowIds(rq.results),
                        !.offset = pg.offset + pg.limit,
                        !.pc = IF Len(rq.results) < pg.limit THEN "complete"
                               ELSE "paging"]
    /\ rq' = IdleRq
    /\ UNCHANGED <<catalogVars, now, up, sweepVars, swarmVars, accounts, gr, sy, tk, pool, an, sb>>

NextPaging ==
    \/ \E u \in Users, qr \in PagingQueries, limit \in 1..MaxLimit, mine \in BOOLEAN :
          PageBegin(u, qr, limit, mine)
    \/ PageRequest
    \/ ReqQuery
    \/ ReqEnrichStart
    \/ SlRead
    \/ SlReturn
    \/ ReqEnrichEnd
    \/ ReqRespond
    \/ ReqTrack
    \/ PageCollect

SpecPaging == InitSearch /\ [][NextPaging]_vars

\* ------------------------------------------------------------------------
\* The expiry sweep over the swarms of several torrents, the clients
\* announcing between the sweeps
\* ------------------------------------------------------------------------
SweepTorrents == 1..(MaxTorrentId + 1)

\* Redis becomes unreachable
RedisDrop ==
    /\ redisUp
    /\ redisUp' = FALSE
    /\ UNCHANGED <<otherVars, now, peers, peerh, pt, su, userStats, sl, moreVars>>

NextSweep ==
    \/ \E t \in SweepTorrents, u \in Users, left \in Lefts :
           pt.pc # "purge" /\ Announce(t, u, u, left)
    \/ PtStart
    \/ PtScan
    \/ PtPurge
    \/ PtFinish
    \/ RedisDrop
    \/ Tick(MaxSwarmTime)

SpecSweep == InitSwarm /\ [][NextSweep]_vars

\* ------------------------------------------------------------------------
\* The two aggregations over a swarm store that holds a peer hash with a
\* field that is no number
\* ------------------------------------------------------------------------
TallyHashes ==
    { [t |-> 1, p |-> 1, user_id |-> 1, left |-> 0],
      [t |-> 1, p |-> 2, user_id |-> 2, left |-> 7],
      [t |-> 2, p |-> 1, user_id |-> 1, left |-> NotANumber],
      [t |-> 2, p |-> 2, user_id |-> 2, left |-> 0] }

InitTally ==
    /\ torrents = {}
    /\ nextId = 1
    /\ files = {}
    /\ now = 0
    /\ up = [s \in Slots |-> IdleUpload]
    /\ db = IdleDb
    /\ stale = IdleStale
    /\ peers = {}
    /\ peerh \in SUBSET TallyHashes
    /\ redisUp = TRUE
    /\ pt = IdlePt
    /\ su = IdleSu
    /\ userStats = [u \in Users |-> NoStats]
    /\ sl = IdleSl
    /\ IdleSearch
    /\ IdleMore

NextTally ==
    \/ SuStart
    \/ SuRead
    \/ SuTallyDone
    \/ SuWrite
    \/ SuFinish
    \/ AnScan
    \/ AnAggregate
    \/ RedisDrop

SpecTally == InitTally /\ [][NextTally]_vars

\* ------------------------------------------------------------------------
\* Claims about upload and the catalog (Spec)
\* ------------------------------------------------------------------------
NoSweepYet == db.runs = 0 /\ stale.runs = 0

\* two requests that uploaded the same content for two different users, and
\* were the only ones to upload it
RacedUploads(s1, s2) ==
    /\ s1 # s2
    /\ up[s1].pc = "done" /\ up[s2].pc = "done"
    /\ up[s1].status # 400 /\ up[s2].status # 400
    /\ up[s1].content = up[s2].content
    /\ up[s1].user # up[s2].user
    /\ \A s3 \in Slots \ {s1, s2} : up[s3].pc = "idle"

\* C2: two uploads of the same content by two different users, in any
\* interleaving of their steps, leave exactly one row for the content; one
\* request answers 200 and the other 409, never 500.
C2_OneSuccessOneConflict ==
    \A s1, s2 \in Slots :
        (RacedUploads(s1, s2) /\ NoSweepYet)
            => /\ {up[s1].status, up[s2].status} = {200, 409}
               /\ Cardinality(ExistingRows(up[s1].content)) = 1

\* the columns upload's UPDATE leaves alone
SameFixedColumns(r, q) ==
    /\ r.id = q.id /\ r.category = q.category /\ r.grabs = q.grabs
    /\ r.added_on = q.added_on /\ r.added_by_user_id = q.added_by_user_id
    /\ r.torrent_path = q.torrent_path
    /\ r.hash_v1 = q.hash_v1 /\ r.hash_v2 = q.hash_v2

\* the mutable metadata of row r is what the request req sent, seen at time t
CarriesMeta(r, req, t) ==
    /\ r.name = req.meta.name
    /\ r.normalized_name = clean_text_filter(req.meta.name)
    /\ r.season = extract_season_episode(req.meta.name)[1]
    /\ r.episode = extract_season_episode(req.meta.name)[2]
    /\ r.imdbid = req.meta.imdbid /\ r.tmdbid = req.meta.tmdbid
    /\ r.tvdbid = req.meta.tvdbid
    /\ r.artist = CleanOpt(req.meta.artist) /\ r.album = CleanOpt(req.meta.album)
    /\ r.last_seen = t

\* the step in which request s learns that the content exists
C3_CheckStep(s) ==
    (up[s].pc = "check" /\ up'[s].pc # "check" /\ ExistingRows(up[s].content) # {})
        => /\ torrents' = torrents
           /\ \/ up'[s].pc = "done" /\ up'[s].status = 409
                 /\ \E r \in ExistingRows(up[s].content) : r.added_by_user_id # up[s].user
              \/ up'[s].pc = "update"
                 /\ \E r \in ExistingRows(up[s].content) :
                        r.added_by_user_id = up[s].user /\ up'[s].existing = r.id

\* the step in which the owner's re-upload writes
C3_UpdateStep(s) ==
    (up[s].pc = "update" /\ up'[s].pc = "done")
        => /\ up'[s].status = 409
           /\ Cardinality(torrents') = Cardinality(torrents)
           /\ \A r \in torrents :
                 IF r.id = up[s].existing
                 THEN \E q \in torrents' : SameFixedColumns(r, q) /\ CarriesMeta(q, up[s], now)
                 ELSE r \in torrents'

\* C3: an upload of a hash the catalog holds is answered 409; by another
\* user it leaves the table as it is, by the owner it overwrites the row's
\* mutable metadata in place; the number of rows does not change.
C3_ReuploadInPlace ==
    [][\A s \in Slots : C3_CheckStep(s) /\ C3_UpdateStep(s)]_vars

\* an owner's re-upload has replaced the metadata of the first upload
C3_Witness ==
    \E s1, s2 \in Slots :
        /\ s1 # s2
        /\ up[s1].pc = "done" /\ up[s1].status = 200
        /\ up[s2].pc = "done" /\ up[s2].status = 409
        /\ up[s1].content = up[s2].content /\ up[s1].user = up[s2].user
        /\ up[s1].meta.name # up[s2].meta.name
        /\ \E r \in ExistingRows(up[s2].content) :
              r.name = up[s2].meta.name /\ r.added_by_user_id = up[s2].user

\* C4: no two rows share a hash_v1 value and no two rows share a hash_v2 value
C4_UniqueHashes ==
    \A r \in torrents : \A q \in torrents :
        r # q => r.hash_v1 # q.hash_v1 /\ r.hash_v2 # q.hash_v2

\* a request past its check attempts to insert a content that meanwhile has a row
C4_Witness ==
    \E s \in Slots :
        /\ up[s].pc = "insert"
        /\ up[s].attempt > 1
        /\ ExistingRows(up[s].content) # {}
        /\ Cardinality(torrents) = 1

\* ------------------------------------------------------------------------
\* Claims about reconciliation (SpecRecon)
\* ------------------------------------------------------------------------
\* the stored files whose recomputed hashes are h1 and h2
FilesHashingTo(h1, h2) ==
    {f \in files : get_torrent_hashes(f.content) = <<h1, h2>>}

\* the positions of the fetched rows whose recorded path is on disk
RecordedOnDisk ==
    {i \in 1..Len(db.snapshot) :
        \E f \in files : f.path = db.snapshot[i].torrent_path}

\* the first loop: a row whose recorded path exists gets no future, every
\* other row gets one, and the table is not written
C5_SubmitStep ==
    (db.pc = "fetched" /\ db'.pc = "hashing")
        => /\ torrents' = torrents
           /\ Len(db'.futures) = Len(db.snapshot) - Cardinality(RecordedOnDisk)
           /\ \A i \in 1..Len(db.snapshot) :
                 (i \in RecordedOnDisk)
                     <=> ~\E k \in 1..Len(db'.futures) :
                            db'.futures[k].hash_v2 = db.snapshot[i].hash_v2

\* a hash worker answers for future i: a stored file with the row's hashes
\* if there is one, nothing otherwise
C5_HashStep(i) ==
    (i <= Len(db.futures) /\ db.pc = "hashing" /\ db.futures[i].status = "pending"
        /\ db'.futures[i].status = "ok")
        => LET fu == db.futures[i]
               m  == db'.futures[i].match
           IN IF FilesHashingTo(fu.hash_v1, fu.hash_v2) = {}
              THEN m = Null
              ELSE \E f \in FilesHashingTo(fu.hash_v1, fu.hash_v2) : m = f.path

\* the second loop handles an answered future: with a match the row stays and
\* records the matching file, without one the row is gone; no other row is touched
C5_ApplyStep ==
    (db.pc = "hashing" /\ db'.applied = db.applied + 1 /\ NextFuture(db).status = "ok")
        => LET fu == NextFuture(db)
           IN \A r \in torrents :
                 IF r.hash_v2 # fu.hash_v2 THEN r \in torrents'
                 ELSE IF fu.match # Null
                 THEN /\ [r EXCEPT !.torrent_path = fu.match] \in torrents'
                      /\ Cardinality(torrents') = Cardinality(torrents)
                 ELSE ~\E q \in torrents' : q.hash_v2 = r.hash_v2

\* C5: in a reconciliation sweep a row whose recorded path exists on disk is
\* left as it is; a row whose path is missing while a stored file recomputes to
\* the row's hash gets that file as its path and is not deleted; a row no
\* stored file matches is deleted.
C5_RowStateMachine ==
    [][/\ C5_SubmitStep
       /\ \A i \in 1..MaxContent : C5_HashStep(i)
       /\ C5_ApplyStep]_vars

\* a second sweep has skipped a row that the first one repaired to a moved
\* file, after the first one deleted the row whose file was lost
C5_Witness ==
    /\ db.pc = "done" /\ db.runs = 2 /\ stale.runs = 0
    /\ Len(db.futures) < db.total
    /\ Cardinality(torrents) = 1
    /\ \E r \in torrents : r.torrent_path \in AltPaths

\* the futures of the sweep that answered
AnsweredFutures == {k \in 1..Len(db.futures) : db.futures[k].status = "ok"}

\* C6: a sweep in which the work for one item raised still handles every
\* other item (repairs or removes its row), counts them in its result, and
\* runs to its end.
C6_SweepSurvivesErrors ==
    db.pc = "done"
        => /\ db.applied = Len(db.futures)
           /\ \A k \in 1..Len(db.futures) : db.futures[k].status # "pending"
           /\ db.updated + db.removed = Cardinality(AnsweredFutures)
           /\ \A k \in AnsweredFutures : \A r \in torrents :
                 r.hash_v2 = db.futures[k].hash_v2
                     => db.futures[k].match # Null /\ r.torrent_path = db.futures[k].match

\* a finished sweep whose first completed item raised and whose second one
\* was handled and counted
C6_Witness ==
    /\ db.pc = "done"
    /\ Len(db.queue) = 2
    /\ db.futures[db.queue[1]].status = "error"
    /\ db.futures[db.queue[2]].status = "ok"
    /\ db.updated + db.removed = 1

\* whether some row refers to file f: by its recorded path, by the file name
\* derived from its hash, or by its content hash
Referenced(f, rows) ==
    \E r \in rows : \/ r.torrent_path = f.path
                    \/ get_torrent_file(r.hash_v2) = f.path
                    \/ get_torrent_hashes(f.content) = <<r.hash_v1, r.hash_v2>>

\* the rows the sweep fetched
SnapshotRows == {db.snapshot[i] : i \in 1..Len(db.snapshot)}

\* C7: once a reconciliation sweep has completed, every stored file is
\* referenced by a row of the catalog (a file whose row the sweep itself
\* still saw is not counted against it).
C7_NoOrphanFiles ==
    db.pc = "done"
        => \A f \in files : Referenced(f, torrents) \/ Referenced(f, SnapshotRows)

\* ------------------------------------------------------------------------
\* Claims about the swarm counts (SpecSwarm, SpecExpiry)
\* ------------------------------------------------------------------------
\* the peers of torrent t last seen no longer ago than the timeout
FreshPeers(t) == {z.p : z \in {y \in peers : y.t = t /\ y.score >= now - PEER_TIMEOUT}}

\* the peers of torrent t last seen longer ago than the timeout
OldPeers(t) == {z.p : z \in {y \in peers : y.t = t /\ y.score < now - PEER_TIMEOUT}}

\* the call lists every fresh peer once and no old one, and starts at zero
C8_ListStep ==
    (sl.pc = "idle" /\ sl'.pc = "read")
        => /\ {sl'.ids[i] : i \in 1..Len(sl'.ids)} = FreshPeers(sl'.t)
           /\ Len(sl'.ids) = Cardinality(FreshPeers(sl'.t))
           /\ \A p \in OldPeers(sl'.t) : \A i \in 1..Len(sl'.ids) : sl'.ids[i] # p
           /\ sl'.seeders = 0 /\ sl'.leechers = 0

\* the call looks at one listed peer: left = 0 adds one seeder and no leecher,
\* left > 0 adds one leecher and no seeder, and the peer leaves the list
C8_ReadStep ==
    (sl.pc = "read" /\ sl.ids # <<>> /\ sl'.pc = "read" /\ sl' # sl)
        => /\ sl'.ids = Tail(sl.ids)
           /\ hgetall(sl.t, Head(sl.ids)) = {} => sl'.seeders = sl.seeders /\ sl'.leechers = sl.leechers
           /\ \A h \in peerh :
                 (h.t = sl.t /\ h.p = Head(sl.ids))
                     => IF h.left = 0
                        THEN sl'.seeders = sl.seeders + 1 /\ sl'.leechers = sl.leechers
                        ELSE sl'.seeders = sl.seeders /\ sl'.leechers = sl.leechers + 1

\* the counts returned are the counts reached at the end of the list
C8_ReturnStep ==
    (sl.pc = "read" /\ sl'.pc = "done")
        => sl.ids = <<>> /\ sl'.seeders = sl.seeders /\ sl'.leechers = sl.leechers

\* C8: in the per-torrent counts a peer with left = 0 is one seeder and no
\* leecher, a peer with left > 0 is one leecher and no seeder, and a peer last
\* seen longer ago than the timeout is in neither count.
C8_PerTorrentCounts ==
    [][C8_ListStep /\ C8_ReadStep /\ C8_ReturnStep]_vars

\* a call has returned one seeder and one leecher for a torrent that also has
\* an old peer
C8_Witness ==
    /\ sl.pc = "done" /\ sl.seeders = 1 /\ sl.leechers = 1
    /\ OldPeers(sl.t) # {}
    /\ \E h \in peerh : h.t = sl.t /\ h.p \in FreshPeers(sl.t) /\ h.left = 0
    /\ \E h \in peerh : h.t = sl.t /\ h.p \in FreshPeers(sl.t) /\ h.left = 7

\* C9: once every peer was last seen longer ago than the timeout and an
\* expiry sweep has run, a stats refresh that runs afterwards leaves no user
\* with a seeding or leeching count.
C9_ExpiredPeersUncounted ==
    (/\ pt.pc = "done" /\ ~pt.failed
     /\ su.pc = "done" /\ ~su.failed
     /\ su.before > pt.ended
     /\ peers = {})
        => \A u \in Users : userStats[u] = NoStats

\* ------------------------------------------------------------------------
\* Claims about search (SpecSearch)
\* ------------------------------------------------------------------------
\* C1: a search that reports a total reports the number of rows that satisfy
\* its filter, whatever the limit and the offset, also when the page is empty.
C1_TotalIsMatchCount ==
    (rq.pc \in {"enrich", "track", "done"} /\ ~IsRss(rq.query))
        => rq.total = Cardinality({r \in torrents : Matches(r, rq)})

\* C10: with Redis unreachable the request is answered 200 and its response
\* has every row of the page, each with 0 seeders and 0 leechers.
C10_DegradesToZero ==
    (rq.pc = "done" /\ ~redisUp)
        => /\ rq.status = 200
           /\ Len(rq.items) = Len(rq.results)
           /\ \A i \in 1..Len(rq.items) :
                 rq.items[i] = [id |-> rq.results[i].id, seeders |-> 0, leechers |-> 0]

\* ------------------------------------------------------------------------
\* Claims about the filters of a search (SpecFilter)
\* ------------------------------------------------------------------------
\* the store has answered the request's query
Queried == rq.pc \in {"enrich", "track"} \/ (rq.pc = "done" /\ rq.status = 200)

Returned == {rq.results[i] : i \in 1..Len(rq.results)}

\* the page holds every row the query matched
WholePage == rq.offset = 0 /\ Len(rq.results) < rq.limit

\* a season was asked for and no episode
SeasonOnly == rq.query.t = "tvsearch" /\ rq.query.season # Null /\ rq.query.ep = Null

\* the predicates of the request other than the season and episode ones
BesidesSeason(r) == Matches(r, [rq EXCEPT !.query.season = Null, !.query.ep = Null])

\* C11: a TV search with a season and no episode returns the season packs of
\* that season (episode NULL) and never a row of that season with an episode.
C11_SeasonPacksOnly ==
    (Queried /\ SeasonOnly)
        => /\ \A r \in Returned : r.season = rq.query.season /\ r.episode = Null
           /\ WholePage =>
                 \A r \in torrents :
                     (r.season = rq.query.season /\ r.episode = Null
                          /\ BesidesSeason(r)) => r \in Returned

\* a pack and an episode of the asked season both pass the other predicates;
\* the pack is returned and the episode is not
C11_Witness ==
    /\ Queried /\ SeasonOnly
    /\ \E r \in Returned : r.season = rq.query.season /\ r.episode = Null
    /\ \E r \in torrents \ Returned :
          r.season = rq.query.season /\ r.episode # Null /\ BesidesSeason(r)

\* C12: in a TV search every returned row has the episode asked for, or a
\* NULL episode when none was asked for, whether or not a season was given.
C12_EpisodePredicate ==
    (Queried /\ rq.query.t = "tvsearch")
        => \A r \in Returned :
               IF rq.query.ep # Null THEN r.episode = rq.query.ep
               ELSE r.episode = Null

\* C13: a movie search returns no row with a season, episode, artist or
\* album; a music search no row with a season or episode; a TV search no row
\* with an artist or album and no row without a season.
C13_CrossKindExclusion ==
    Queried =>
        \A r \in Returned :
            /\ rq.query.t = "movie" =>
                   /\ r.season = Null /\ r.episode = Null
                   /\ r.artist = NullStr /\ r.album = NullStr
            /\ rq.query.t = "music" => r.season = Null /\ r.episode = Null
            /\ rq.query.t = "tvsearch" =>
                   /\ r.artist = NullStr /\ r.album = NullStr
                   /\ r.season # Null

\* an identifier parameter that was sent
Supplied(id) == id # Null

AnyIdSupplied ==
    Supplied(rq.query.imdbid) \/ Supplied(rq.query.tmdbid) \/ Supplied(rq.query.tvdbid)

\* the row's identifier equals the supplied one for some kind supplied
SomeIdEqual(r) ==
    \/ Supplied(rq.query.imdbid) /\ r.imdbid = rq.query.imdbid
    \/ Supplied(rq.query.tmdbid) /\ r.tmdbid = rq.query.tmdbid
    \/ Supplied(rq.query.tvdbid) /\ r.tvdbid = rq.query.tvdbid

\* the predicates of the request other than the identifier ones
BesidesIds(r) ==
    Matches(r, [rq EXCEPT !.query.imdbid = Null, !.query.tmdbid = Null,
                          !.query.tvdbid = Null])

\* C14: in a filtered search with identifiers supplied, a row is returned iff
\* it passes every other predicate and equals a supplied identifier; with no
\* identifier supplied, identifiers do not restrict the result.
C14_IdentifiersOrThenAnd ==
    (Queried /\ ~IsRss(rq.query))
        => /\ \A r \in Returned :
                 BesidesIds(r) /\ (AnyIdSupplied => SomeIdEqual(r))
           /\ WholePage =>
                 \A r \in torrents :
                     (BesidesIds(r) /\ (AnyIdSupplied => SomeIdEqual(r)))
                         => r \in Returned

\* the predicates of the request other than the ownership one
BesidesOwner(r) == Matches(r, [rq EXCEPT !.include_my_uploads = TRUE])

\* C15: without include_my_uploads no returned row is owned by the querying
\* user, in every search mode; with it, the user's own rows that pass the
\* other predicates are returned.
C15_OwnershipFilter ==
    Queried
        => /\ ~rq.include_my_uploads =>
                 \A r \in Returned : r.added_by_user_id # rq.user
           /\ (rq.include_my_uploads /\ WholePage) =>
                 \A r \in torrents :
                     (r.added_by_user_id = rq.user /\ BesidesOwner(r))
                         => r \in Returned

\* a row of the querying user passes the other predicates and is left out
C15_Witness ==
    /\ Queried /\ ~rq.include_my_uploads /\ WholePage
    /\ \E r \in torrents \ Returned : r.added_by_user_id = rq.user /\ BesidesOwner(r)
    /\ Returned # {}

\* a text query that is absent, empty or made of blanks only
Blank(q) == q = NullStr \/ \A i \in 1..Len(q) : q[i] = " "

\* the rows that pass the category and ownership filters alone
FeedRows ==
    {r \in torrents :
        /\ rq.include_my_uploads
               \/ (r.added_by_user_id # Null /\ r.added_by_user_id # rq.user)
        /\ rq.query.cat = NoCat
               \/ \E i \in 1..Len(Cats(rq.query.cat)) : r.category = Cats(rq.query.cat)[i]}

Max(a, b) == IF a >= b THEN a ELSE b

\* results is rows offset+1 .. offset+limit of S in some newest-first order
NewestPageOf(S) ==
    /\ \A i \in 1..Len(rq.results) : rq.results[i] \in S
    /\ \A i, j \in 1..Len(rq.results) : i < j => rq.results[i] # rq.results[j]
    /\ \A i, j \in 1..Len(rq.results) :
          i < j => rq.results[i].added_on >= rq.results[j].added_on
    /\ Len(rq.results) = Min(rq.limit, Max(Cardinality(S) - rq.offset, 0))
    /\ \A i \in 1..Len(rq.results) :
          /\ Cardinality({r \in S : r.added_on > rq.results[i].added_on})
                 <= rq.offset + i - 1
          /\ Cardinality({r \in S : r.added_on >= rq.results[i].added_on})
                 >= rq.offset + i

\* C16: a 'search' with an absent, empty or blank text query is a catalog
\* feed: no text predicate, the rows passing the category and ownership
\* filters, newest first, cut by the effective limit and the offset (and no
\* total); every other request is a filtered search, which applies the text
\* predicate and reports a total.
C16_CatalogFeedBranch ==
    Queried
        => IF rq.query.t = "search" /\ Blank(rq.query.q)
           THEN rq.total = Null /\ NewestPageOf(FeedRows)
           ELSE /\ rq.total # Null
                /\ \A r \in Returned :
                      Contains(r.normalized_name, clean_text_filter(rq.query.q))

\* a blank query over two rows of different age, cut to the newer one, while
\* the rows' names do not hold the blank
C16_Witness ==
    /\ Queried
    /\ rq.query.t = "search" /\ rq.query.q = <<" ">>
    /\ Cardinality(FeedRows) = 2 /\ Len(rq.results) = 1
    /\ \E r \in FeedRows : r.added_on < rq.results[1].added_on

\* C17: a limit over 1000 is applied as exactly 1000, in the catalog feed and
\* in the filtered search; a limit from 0 to 1000 is applied as sent; no more
\* rows than the effective limit, hence never more than 1000, are returned.
C17_LimitClamp ==
    /\ (rq.pc # "idle" /\ rq.limit_param > 1000) => rq.limit = 1000
    /\ (rq.pc # "idle" /\ rq.limit_param \in 0..1000) => rq.limit = rq.limit_param
    /\ Queried => Len(rq.results) <= rq.limit /\ Len(rq.results) <= 1000

\* a request that asked for more than 1000 rows has been answered
C17_Witness ==
    /\ Queried /\ rq.limit_param > 1000 /\ rq.limit = 1000
    /\ Len(rq.results) = Cardinality(torrents) /\ rq.results # <<>>

\* ------------------------------------------------------------------------
\* Claims about the store-access layer (SpecRetry, SpecFilter)
\* ------------------------------------------------------------------------
\* the store call of the request is under way
InStoreCall == rq.pc = "query" /\ ~CatsRaise(rq.query.cat)

\* C18: a store operation is attempted at most MYSQL_MAX_RETY times; the first
\* attempt that succeeds ends it with that result; a failed attempt before the
\* ceiling is followed by exactly one more; when the last attempt fails the
\* error is raised to the caller, which gets no result.
C18_Step ==
    /\ rq.attempt <= MYSQL_MAX_RETY
    /\ (InStoreCall /\ rq'.pc = "enrich")
           => rq'.attempt = rq.attempt /\ rq'.status = 0
    /\ (InStoreCall /\ rq'.pc = "query" /\ rq' # rq)
           => rq.attempt < MYSQL_MAX_RETY /\ rq'.attempt = rq.attempt + 1
    /\ (InStoreCall /\ rq'.pc = "done")
           => /\ rq.attempt = MYSQL_MAX_RETY
              /\ rq'.status = 500 /\ rq'.results = <<>> /\ rq'.total = Null
    /\ (InStoreCall /\ rq' # rq) => rq'.pc \in {"query", "enrich", "done"}

C18_BoundedRetry == [][C18_Step]_vars

\* a well-formed request lost every attempt to transient faults and was failed
C18_Witness ==
    /\ rq.pc = "done" /\ rq.status = 500 /\ rq.attempt = MYSQL_MAX_RETY
    /\ StatementOk(rq) /\ ~CatsRaise(rq.query.cat)

\* a value a client must not send: a category code that is no number, a
\* negative limit, a negative offset
Malformed ==
    CatsRaise(rq.query.cat) \/ rq.limit_param < 0 \/ rq.offset < 0

\* C19: a search with a malformed filter value is answered with a 4xx status,
\* never with a 5xx one.
C19_MalformedIsClientError ==
    (rq.pc = "done" /\ Malformed) => rq.status \in 400..499

\* C20: a store error that is not transient (here a statement the client's
\* input made invalid) is surfaced after a single attempt, without retries.
C20_PermanentErrorNotRetried ==
    (rq.pc \in {"query", "done"} /\ ~CatsRaise(rq.query.cat) /\ ~StatementOk(rq))
        => rq.attempt <= 1

\* ------------------------------------------------------------------------
\* Claims about grabs and user deletion (SpecGrab)
\* ------------------------------------------------------------------------
\* the grab asks for a hash no row has, or for a row whose file is not on disk
NothingToServe ==
    \A r \in torrents :
        r.hash_v2 = gr.infohash => ~PathExists(get_torrent_file(r.hash_v2))

\* C21: a grab of a hash without a row, or of a row whose torrent file is
\* missing, ends 404 at its first step and changes nothing: no torrent's and
\* no user's grab counter moves; and a grab that ends 404 ended that way.
C21_Step ==
    /\ (gr.pc = "find" /\ gr' # gr /\ NothingToServe)
           => /\ gr'.pc = "done" /\ gr'.status = 404
              /\ torrents' = torrents /\ accounts' = accounts /\ files' = files
    /\ (gr.pc # "done" /\ gr'.pc = "done" /\ gr'.status = 404)
           => /\ gr.pc = "find" /\ NothingToServe
              /\ torrents' = torrents /\ accounts' = accounts /\ files' = files

C21_GrabNotFound == [][C21_Step]_vars

\* a grab was refused for a row that exists while its file does not, after an
\* earlier grab had been counted
C21_Witness ==
    /\ gr.pc = "done" /\ gr.status = 404
    /\ \E r \in torrents : r.hash_v2 = gr.infohash
    /\ \E u \in Users : accounts[u].grabs > 0

\* the step deletes the row of user u
Deletes(u) == accounts[u].present /\ ~accounts'[u].present

\* C22: deleting a user deletes no torrent row: every row is still there
\* afterwards, the rows the user owned have a NULL owner, and every other
\* field of every row is as before.
C22_Step ==
    \A u \in Users :
        Deletes(u) =>
            /\ Cardinality(torrents') = Cardinality(torrents)
            /\ \A r \in torrents :
                  [r EXCEPT !.added_by_user_id =
                       IF r.added_by_user_id = u THEN Null ELSE r.added_by_user_id]
                      \in torrents'

C22_DeleteUserKeepsTorrents == [][C22_Step]_vars

\* a user who owned a row is gone and the row is still there, without owner
C22_Witness ==
    \E u \in Users :
        /\ ~accounts[u].present
        /\ \E r \in torrents : r.added_by_user_id = Null /\ OwnerOf(r.id) = u
        /\ Cardinality(torrents) = MaxContent

\* ------------------------------------------------------------------------
\* Claims about who may change a row (SpecOwner)
\* ------------------------------------------------------------------------
\* the descriptive metadata of a row
Descr(r) ==
    <<r.name, r.normalized_name, r.season, r.episode, r.imdbid, r.tmdbid,
      r.tvdbid, r.artist, r.album>>

\* the step is a write of an upload or of a sync authenticated as row r's uploader
ByUploader(r) ==
    \/ \E s \in Slots :
          up[s].pc = "update" /\ up'[s] # up[s] /\ up[s].user = r.added_by_user_id
    \/ sy.pc = "update" /\ sy'.pc = "idle" /\ sy.user = r.added_by_user_id

\* C23: the descriptive metadata of a row changes only in a step of an upload
\* or a sync of the user who uploaded the row.
C23_Step ==
    \A r \in torrents : \A r2 \in torrents' :
        (r2.id = r.id /\ Descr(r2) # Descr(r)) => ByUploader(r)

C23_OnlyUploaderEdits == [][C23_Step]_vars

\* a row renamed by its uploader's sync, which another user's upload of the
\* same torrent (answered 409) and another user's sync under way left alone
C23_Witness ==
    \E r \in torrents : \E s \in Slots :
        /\ r.name = NamePack
        /\ up[s].pc = "done" /\ up[s].status = 409
        /\ get_torrent_hashes(up[s].content)[2] = r.hash_v2
        /\ up[s].user # r.added_by_user_id /\ up[s].meta.name # r.name
        /\ sy.pc = "idle"

\* ------------------------------------------------------------------------
\* Claims about shutdown (SpecShutdown)
\* ------------------------------------------------------------------------
\* the staleness sweep has removed the file of an item of its list and the
\* item's row is still in the catalog
HalfProcessed(it) ==
    /\ \E r \in torrents : r.id = it.id
    /\ ~\E f \in files : f.path = get_torrent_file(it.hash_v2)

\* C24: once the background tasks are cancelled, no item of the staleness
\* sweep is left half-processed: the sweep has not unlinked the file of an
\* item whose row it did not delete.
C24_CancelBetweenItems ==
    stale.pc = "cancelled" =>
        \A i \in 1..Len(stale.list) : ~HalfProcessed(stale.list[i])

\* ------------------------------------------------------------------------
\* Claims about the expiry sweep (SpecSweep)
\* ------------------------------------------------------------------------
\* the step ends a pass of the expiry sweep that no call to Redis failed in
PtCompletes == pt.pc = "purge" /\ pt'.pc = "done" /\ ~pt'.failed

\* C25: in a pass of the expiry sweep that no announce runs along with, a
\* step removes only entries last seen at or before the cutoff (the clock at
\* the start of the pass less PEER_TIMEOUT) and adds their number to the purge
\* count; the next batch of keys is fetched only when every key of the batch
\* before has been purged; and the pass ends only with the cursor at 0, when
\* no index holds an entry older than the cutoff, the purge count being the
\* number of entries removed since the start.
C25_Step ==
    /\ pt.pc = "purge" =>
          /\ peers' \subseteq peers
          /\ \A z \in peers \ peers' : z.score <= pt.cutoff
          /\ pt'.purged = pt.purged + Cardinality(peers \ peers')
          /\ pt'.cursor # pt.cursor => pt.keys = <<>>
    /\ (pt.pc # "purge" /\ pt'.pc = "purge") =>
          /\ pt'.cutoff = now - PEER_TIMEOUT
          /\ pt'.purged = 0
    /\ PtCompletes =>
          /\ pt.cursor = 0 /\ pt.keys = <<>>
          /\ \A z \in peers' : z.score >= pt.cutoff

C25_ExpirySweepPostcondition == [][C25_Step]_vars

\* a pass over two swarms that took two calls of scan has ended: it purged the
\* stale entry of each and left the entry announced after the cutoff
C25_Witness ==
    /\ pt.pc = "done" /\ ~pt.failed
    /\ pt.purged = 2
    /\ \E z \in peers : z.score > pt.cutoff
    /\ \A z \in peers : z.score > pt.cutoff
    /\ \E h \in peerh : h.t = MaxTorrentId + 1 /\ ~\E z \in peers : z.t = h.t

\* ------------------------------------------------------------------------
\* Claims about paging (SpecPaging)
\* ------------------------------------------------------------------------
\* the ids of the rows the filter of the paging client matches
PagedIds ==
    {r.id : r \in {x \in torrents :
                     Matches(x, [IdleRq EXCEPT !.user = pg.user, !.query = pg.query,
                                               !.include_my_uploads = pg.mine])}}

\* C26: each page is ordered newest first, and a client that has paged
\* through a search with a fixed limit and consecutive offsets has received
\* every matching row exactly once.
C26_DeterministicPaging ==
    /\ rq.pc \in {"enrich", "track", "done"} =>
          \A i \in 1..Len(rq.results) : \A j \in i..Len(rq.results) :
              rq.results[i].added_on >= rq.results[j].added_on
    /\ pg.pc = "complete" =>
          /\ \A i \in 1..Len(pg.seen) : \A j \in 1..Len(pg.seen) :
                pg.seen[i] = pg.seen[j] => i = j
          /\ {pg.seen[i] : i \in 1..Len(pg.seen)} = PagedIds

\* ------------------------------------------------------------------------
\* Claims about the delays between attempts (SpecRetry)
\* ------------------------------------------------------------------------
\* the step is the sleep after a failed attempt of the search's store call
Sleeps == rq.pc = "query" /\ rq'.pc = "query" /\ rq'.attempt = rq.attempt + 1

\* C27: the delay slept after the failed attempt k is MYSQL_RETRY_BACKOFF *
\* 2^(k-1), so each delay is at least twice the one before.
C27_Step ==
    Sleeps =>
        /\ rq'.wait = MYSQL_RETRY_BACKOFF * 2 ^ (rq.attempt - 1)
        /\ rq.attempt > 1 => rq'.wait >= 2 * rq.wait

C27_ExponentialBackoff == [][C27_Step]_vars

\* ------------------------------------------------------------------------
\* Claims about the counts of the sweeps (SpecRecon)
\* ------------------------------------------------------------------------
\* the rows of the store whose path the step changes, and those it deletes
PathChanged ==
    {r \in torrents : \E r2 \in torrents' :
        r2.id = r.id /\ r2.torrent_path # r.torrent_path}

RowsDeleted == {r \in torrents : ~\E r2 \in torrents' : r2.id = r.id}

\* C28: total is the number of rows the sweep fetched; each pass of the
\* sweep's loop adds to updated the number of rows whose path it changed in
\* the store and to removed the number of rows it deleted; and updated +
\* removed never exceeds the number of fetched rows whose path was missing,
\* nor total.
C28_Step ==
    /\ (db.pc = "hashing" /\ db'.applied = db.applied + 1) =>
          /\ db'.updated = db.updated + Cardinality(PathChanged)
          /\ db'.removed = db.removed + Cardinality(RowsDeleted)
    /\ db'.pc \in {"hashing", "done"} =>
          /\ db'.total = Len(db'.snapshot)
          /\ db'.updated + db'.removed <= Len(db'.futures)
          /\ Len(db'.futures) <= db'.total

C28_FaithfulTriple == [][C28_Step]_vars

\* ------------------------------------------------------------------------
\* Claims about the staleness sweep (Spec)
\* ------------------------------------------------------------------------
\* the step belongs to the staleness sweep
StaleStep == stale' # stale

FilesRemoved == files \ files'

\* C29: the staleness sweep takes for its pass the rows last seen longer ago
\* than STALE_THRESHOLD at the time of its query; for each of them it removes
\* the hash-named file, then the row, and it removes no other row and no
\* other file; when the pass completes, every row it took is gone from the catalog
\* and the purge count is their number.
C29_Step ==
    /\ (StaleStep /\ stale'.runs = stale.runs + 1) =>
          /\ {it.id : it \in {stale'.fetched[i] : i \in 1..Len(stale'.fetched)}}
                = {r.id : r \in {x \in torrents : x.last_seen < now - STALE_THRESHOLD}}
          /\ torrents' = torrents /\ files' = files
    /\ (StaleStep /\ stale'.runs = stale.runs /\ stale.list # <<>>) =>
          /\ \A r \in RowsDeleted : r.id = Head(stale.list).id
          /\ \A f \in FilesRemoved : f.path = get_torrent_file(Head(stale.list).hash_v2)
          /\ stale'.pc = "delete" =>
                ~\E f \in files' : f.path = get_torrent_file(Head(stale.list).hash_v2)
          /\ stale'.removed > stale.removed =>
                /\ stale.pc = "delete"
                /\ ~\E r \in torrents' : r.id = Head(stale.list).id
    /\ (StaleStep /\ stale'.pc = "done") =>
          /\ stale.list = <<>>
          /\ stale'.removed = Len(stale'.fetched)
          /\ \A i \in 1..Len(stale'.fetched) :
                ~\E r \in torrents' : r.id = stale'.fetched[i].id

C30_TasksKeepRunning ==
    \A k \in Tasks : <>(tk[k].pc = "cancelled") \/ []<><<TaskStart(k)>>_vars

\* a task whose iteration before raised runs again, next to a task still in
\* its first iteration and one that sleeps after an iteration that raised
C30_Witness ==
    \E k, j, i \in Tasks :
        /\ tk[k] = [pc |-> "run", last |-> "raised"]
        /\ tk[j] = [pc |-> "run", last |-> "none"]
        /\ tk[i] = [pc |-> "wait", last |-> "raised"]

\* ------------------------------------------------------------------------
\* Claims about the hash worker pool (SpecPool)
\* ------------------------------------------------------------------------
\* C31: a reconciliation run works with a pool that is open, and once the
\* run has returned or raised the pool is shut down.
C31_PoolScopedToRun ==
    /\ db.pc \in {"fetched", "hashing"} => pool = "open"
    /\ db.pc = "done" => pool = "shutdown"

\* ------------------------------------------------------------------------
\* Claims about the aggregations over the swarm (SpecTally)
\* ------------------------------------------------------------------------
\* the peer hashes whose fields are numbers
WellFormed == {h \in peerh : Parses(h)}

\* the tally of the stats refresh covers exactly the well-formed hashes
RefreshCountsTheRest ==
    (su.pc \in {"write", "done"} /\ ~su.failed) =>
        /\ DOMAIN su.all = {h.user_id : h \in WellFormed}
        /\ \A u \in DOMAIN su.all :
              /\ su.all[u].seeding =
                    Cardinality({h \in WellFormed : h.user_id = u /\ h.left = 0})
              /\ su.all[u].leeching =
                    Cardinality({h \in WellFormed : h.user_id = u /\ h.left # 0})

\* the analytics report covers exactly the well-formed hashes
AnalyticsCountsTheRest ==
    (an.pc = "done" /\ redisUp) => an.result.total_peers = Cardinality(WellFormed)

\* C32: a peer hash that does not parse is left out of the counts of the
\* stats refresh and of the analytics report, and every other peer hash of
\* the pass is counted.
C32_BadPeerIsSkipped == RefreshCountsTheRest /\ AnalyticsCountsTheRest

\* ------------------------------------------------------------------------
\* Claims about reconciliation among uploads and staleness sweeps (Spec)
\* ------------------------------------------------------------------------
\* the step is a pass of the reconciliation loop
ReconApplies == db.pc = "hashing" /\ db'.applied = db.applied + 1

C35_Step ==
    ReconApplies
        => \A r \in RowsDeleted : MatchingFiles(r.hash_v1, r.hash_v2) = {}

\* C35: the reconciliation sweep deletes a row only when, at the moment of
\* the deletion, no file of torrent storage has the row's hash; a torrent
\* uploaded again while the sweep is in flight is not deleted by it.
C35_DeletesOnlyFileless == [][C35_Step]_vars

\* ------------------------------------------------------------------------
\* Claims about grabs after a reconciliation sweep (SpecServe)
\* ------------------------------------------------------------------------
\* the grab found the row of its hash and answered 404 "Torrent file missing"
FileMissingOutcome ==
    /\ gr.pc = "done" /\ gr.status = 404
    /\ \E r \in torrents : r.hash_v2 = gr.infohash

\* C36: after a completed reconciliation sweep, with nothing else running,
\* no grab of the hash of a row of the catalog ends in "Torrent file
\* missing"; this includes the rows whose path the sweep updated.
C36_RemainingRowsServable == db.pc = "done" => ~FileMissingOutcome

\* ------------------------------------------------------------------------
\* Claims about the time window and the cutoff (SpecExpiry)
\* ------------------------------------------------------------------------
\* the peers of torrent t a counting call that starts now lists
CountedNow(t) == {SlListed(t).ids[i] : i \in 1..Len(SlListed(t).ids)}

\* the peers of torrent t an expiry sweep that takes its cutoff now removes
PurgeableNow(t) == Expired(t, now - PEER_TIMEOUT)

\* C37: at any instant no peer is both counted by the per-torrent
\* aggregation and removable by the expiry sweep, and a removable peer was
\* last seen strictly longer ago than PEER_TIMEOUT.
C37_WindowAndCutoffDisjoint ==
    \A t \in SwarmTorrents :
        \A z \in PurgeableNow(t) :
            /\ z.p \notin CountedNow(t)
            /\ now - z.score > PEER_TIMEOUT

\* ------------------------------------------------------------------------
\* Claims about the counters of grab under failing store calls (SpecFlaky)
\* ------------------------------------------------------------------------
\* how much the request has added to the counter of its torrent and of its user
AddedToTorrent == GrabsOf(gr.infohash) - gr.before.torrent

AddedToUser == accounts[gr.user].grabs - gr.before.user

\* C38: a grab that returns the file has added exactly 1 to the grab counter
\* of its torrent and exactly 1 to that of its user; a grab that ends in an
\* error has added to neither, whatever store calls failed and were retried.
C38_GrabAccountingExact ==
    gr.pc = "done"
        => IF gr.status = 200
           THEN AddedToTorrent = 1 /\ AddedToUser = 1
           ELSE AddedToTorrent = 0 /\ AddedToUser = 0

\* ------------------------------------------------------------------------
\* Claims about the ids sync reports (SpecSyncList)
\* ------------------------------------------------------------------------
Reported == {sb.missing_ids[i] : i \in 1..Len(sb.missing_ids)}

\* the entry's infohash is the hash_v2 of no row, or the entry has none
Untracked(e) == ~\E r \in torrents : HasInfohash(e) /\ r.hash_v2 = e.infohash

\* the entry's infohash is that of a row with a legacy hash or of another user
TrackedElsewhere(e) ==
    \E r \in torrents :
        /\ HasInfohash(e) /\ r.hash_v2 = e.infohash
        /\ r.hash_v1 # Null \/ r.added_by_user_id # sb.user

\* the ids one query over all the rows with an infohash would give
Unbatched ==
    {sb.list[i].id : i \in {j \in 1..Len(sb.list) :
        HasInfohash(sb.list[j]) /\ MissingRow(sb.list[j], sb.user)}}

\* C39: the response of sync holds the id of every entry whose infohash is
\* the hash_v2 of no row, entries without infohash included, and the id of
\* no entry whose infohash is that of a row with a legacy hash or of another
\* user; the batches give what one query over the list would give.
C39_SyncReportsUntracked ==
    sb.pc = "done"
        => /\ \A i \in 1..Len(sb.list) :
                 /\ Untracked(sb.list[i]) => sb.list[i].id \in Reported
                 /\ TrackedElsewhere(sb.list[i]) => sb.list[i].id \notin Reported
           /\ (\E i \in 1..Len(sb.list) : HasInfohash(sb.list[i]))
                 => \A id \in Unbatched : id \in Reported

\* ------------------------------------------------------------------------
\* Claims about the cached counts of the users (SpecRefresh)
\* ------------------------------------------------------------------------
\* the peer records of user u that no expiry sweep has removed from the swarm
\* of their torrent
LivePeers(u) ==
    {h \in peerh : h.user_id = u /\ \E z \in peers : z.t = h.t /\ z.p = h.p}

LiveCounts(u) ==
    [seeding  |-> Cardinality({h \in LivePeers(u) : h.left = 0}),
     leeching |-> Cardinality({h \in LivePeers(u) : h.left > 0})]

C34_Step ==
    (su.pc = "write" /\ su'.pc = "done")
        => \A u \in Users : userStats'[u] = LiveCounts(u)

\* C34: when a stats refresh iteration completes and no announce ran during
\* it, every user's cached seeding and leeching counts are the numbers of
\* that user's live peer records with left = 0 and with left > 0.
C34_CountsMatchLivePeers == [][C34_Step]_vars

\* ------------------------------------------------------------------------
\* Claims about rows whose uploader was deleted (SpecOrphan)
\* ------------------------------------------------------------------------
\* the store answers a default search with every row it matched
DefaultAnswer ==
    /\ rq.pc = "query" /\ rq'.pc = "enrich"
    /\ ~rq.include_my_uploads
    /\ rq.offset = 0 /\ Len(rq'.results) < rq.limit

\* the rows without owner that pass the predicates other than the ownership one
Orphans ==
    {r \in torrents :
        /\ r.added_by_user_id = Null
        /\ Matches(r, [rq EXCEPT !.include_my_uploads = TRUE])}

C33_Step ==
    DefaultAnswer => \A r \in Orphans : \E i \in 1..Len(rq'.results) : rq'.results[i] = r

\* C33: a default search returns every row whose owner reference is null
\* and that passes the other predicates of the request.
C33_OrphanDiscoverable == [][C33_Step]_vars

====
